---- MODULE Spec2Model ----
(***************************************************************************)
(* A model of mermaid-to-excalidraw-mcp: the convert tool call             *)
(* (src/src/index.ts) with its pipeline                                    *)
(*   directive extraction -> dialect detection -> dialect parser           *)
(*   -> layout -> scene synthesis -> optional file write.                  *)
(*                                                                         *)
(* Source texts are TLA+ strings and the text functions (trim, the         *)
(* directive regexes, the header regexes, the shape patterns) work on      *)
(* their characters.  The line grammars of the three parsers are regular   *)
(* expressions; a body line is a record holding the capture groups that    *)
(* the line's regular expression yields, and the parsers do with those     *)
(* groups what the code does.                                              *)
(***************************************************************************)
EXTENDS Integers, Sequences, FiniteSets, TLC

VARIABLES
    pc,          \* position of the convert handler
    request,     \* the tool call being served
    diagramType, \* result of detectDiagramType
    diagram,     \* ParsedDiagram
    layout,      \* LayoutResult
    elements,    \* the scene: ExcalidrawElement[]
    textInfos,   \* TextElementInfo[]
    seedCounter, \* process-wide counter of elements.ts
    idCounter,   \* stands for generateId: every call yields a fresh identity
    response,    \* what the handler returned
    steps,       \* the pipeline stages run for the current request
    files,       \* contents written with writeFile
    calls,       \* tool calls received by this process
    stripIn,     \* text handed to stripExcaliDirective
    stripOut,    \* its result
    stripN,      \* number of times the strip was applied
    rankQueue,   \* calculateDepths: queue
    rankVisited, \* calculateDepths: visited
    rankDepths   \* calculateDepths: depths

vars == <<pc, request, diagramType, diagram, layout, elements, textInfos,
          seedCounter, idCounter, response, steps, files, calls,
          stripIn, stripOut, stripN, rankQueue, rankVisited, rankDepths>>

Null == "null"

----------------------------------------------------------------------------
(* Strings *)

Char(s, i) == SubSeq(s, i, i)

IsWs(c) == c \in {" ", "\n", "\t"}

UpperLetters == "ABCDEFGHIJKLMNOPQRSTUVWXYZ"
LowerLetters == "abcdefghijklmnopqrstuvwxyz"
Digits == "0123456789"

CharsOf(s) == {Char(s, i) : i \in 1..Len(s)}

UpperSet == CharsOf(UpperLetters)
LowerSet == CharsOf(LowerLetters)
DigitSet == CharsOf(Digits)

\* \w
IsWordChar(c) == c \in UpperSet \/ c \in LowerSet \/ c \in DigitSet \/ c = "_"

\* [A-Za-z_]
IsIdStart(c) == c \in UpperSet \/ c \in LowerSet \/ c = "_"

LowerChar(c) ==
    IF c \in UpperSet
    THEN Char(LowerLetters, CHOOSE i \in 1..26 : Char(UpperLetters, i) = c)
    ELSE c

RECURSIVE ToLower(_)
ToLower(s) == IF s = "" THEN "" ELSE LowerChar(Head(s)) \o ToLower(Tail(s))

StartsWithAt(s, i, lit) ==
    /\ i >= 1
    /\ i + Len(lit) - 1 <= Len(s)
    /\ SubSeq(s, i, i + Len(lit) - 1) = lit

StartsWith(s, lit) == StartsWithAt(s, 1, lit)

Includes(s, lit) == \E i \in 1..(Len(s) + 1) : StartsWithAt(s, i, lit)

\* String.prototype.trim
RECURSIVE TrimLeft(_)
TrimLeft(s) == IF s # "" /\ IsWs(Head(s)) THEN TrimLeft(Tail(s)) ELSE s

RECURSIVE TrimRight(_)
TrimRight(s) ==
    IF s # "" /\ IsWs(Char(s, Len(s)))
    THEN TrimRight(SubSeq(s, 1, Len(s) - 1))
    ELSE s

Trim(s) == TrimRight(TrimLeft(s))

\* position after the run of whitespace that starts at i
RECURSIVE SkipWs(_, _)
SkipWs(s, i) == IF i <= Len(s) /\ IsWs(Char(s, i)) THEN SkipWs(s, i + 1) ELSE i

\* position after the run of \w that starts at i
RECURSIVE SkipWord(_, _)
SkipWord(s, i) ==
    IF i <= Len(s) /\ IsWordChar(Char(s, i)) THEN SkipWord(s, i + 1) ELSE i

\* least position >= i where lit starts, 0 when there is none
RECURSIVE IndexFrom(_, _, _)
IndexFrom(s, i, lit) ==
    IF i + Len(lit) - 1 > Len(s) THEN 0
    ELSE IF StartsWithAt(s, i, lit) THEN i
    ELSE IndexFrom(s, i + 1, lit)

----------------------------------------------------------------------------
(* parser/directive.ts *)

DirectiveOpen == "%%{excali:"
DirectiveClose == "}%%"

\* the leftmost match of /%%\{excali:[\s\S]*?\}%%/ at or after i:
\* <<start, position of the closing "}%%">>, or <<0, 0>>
DirectiveMatch(s, i) ==
    LET o == IndexFrom(s, i, DirectiveOpen)
        c == IF o = 0 THEN 0 ELSE IndexFrom(s, o + Len(DirectiveOpen), DirectiveClose)
    IN  IF o = 0 \/ c = 0 THEN <<0, 0>> ELSE <<o, c>>

\* mermaidSource.replace(/%%\{excali:[\s\S]*?\}%%\s*/g, '')
RECURSIVE RemoveDirectives(_)
RemoveDirectives(s) ==
    LET m == DirectiveMatch(s, 1)
    IN  IF m[1] = 0 THEN s
        ELSE SubSeq(s, 1, m[1] - 1)
             \o RemoveDirectives(
                  SubSeq(s, SkipWs(s, m[2] + Len(DirectiveClose)), Len(s)))

stripExcaliDirective(mermaidSource) == Trim(RemoveDirectives(mermaidSource))

\* VALID_STYLES
VALID_STYLES ==
    {"ui", "api", "db", "cache", "queue", "gateway", "external", "agent",
     "storage", "user", "orchestrator", "problem", "solution", "highlight",
     "group"}

\* the matches of /(\w+):\s*(\w+)/g in s from position p on, in order
RECURSIVE StylePairs(_, _)
StylePairs(s, p) ==
    IF p > Len(s) THEN <<>>
    ELSE IF ~IsWordChar(Char(s, p)) THEN StylePairs(s, p + 1)
    ELSE LET q == SkipWord(s, p)
             r == SkipWs(s, q + 1)
         IN  IF q <= Len(s) /\ Char(s, q) = ":"
                /\ r <= Len(s) /\ IsWordChar(Char(s, r))
             THEN <<[nodeId |-> SubSeq(s, p, q - 1),
                     styleType |-> SubSeq(s, r, SkipWord(s, r) - 1)]>>
                  \o StylePairs(s, SkipWord(s, r))
             ELSE StylePairs(s, q)

\* the capture of /styles:\s*\{([^}]+)\}/ in content, "" when it does not match
RECURSIVE StylesContent(_, _)
StylesContent(content, i) ==
    LET k == IndexFrom(content, i, "styles:")
        b == SkipWs(content, k + 7)
        e == IndexFrom(content, b + 1, "}")
    IN  IF k = 0 THEN ""
        ELSE IF b <= Len(content) /\ Char(content, b) = "{" /\ e > b + 1
             THEN SubSeq(content, b + 1, e - 1)
             ELSE StylesContent(content, k + 1)

\* directive.styles is a plain object literal: besides its own keys it answers
\* a read of every member name of Object.prototype with the inherited member
ObjectPrototypeKeys ==
    {"constructor", "hasOwnProperty", "isPrototypeOf", "propertyIsEnumerable",
     "toLocaleString", "toString", "valueOf", "__proto__", "__defineGetter__",
     "__defineSetter__", "__lookupGetter__", "__lookupSetter__"}

\* the inherited member a read of the name returns: a function or, for
\* __proto__, the prototype object; never a style category, always truthy
InheritedMember(id) == "Object.prototype." \o id

\* the loop of parseExcaliDirective: directive.styles[nodeId] = styleType.
\* The assignment to __proto__ runs the inherited setter, which ignores a
\* string and creates no key.
RECURSIVE AssignStyles(_, _)
AssignStyles(styles, pairs) ==
    IF pairs = <<>> THEN styles
    ELSE LET pr == Head(pairs)
         IN  IF pr.styleType \in VALID_STYLES /\ pr.nodeId # "__proto__"
             THEN AssignStyles(
                    [id \in (DOMAIN styles) \cup {pr.nodeId} |->
                        IF id = pr.nodeId THEN pr.styleType ELSE styles[id]],
                    Tail(pairs))
             ELSE AssignStyles(styles, Tail(pairs))

NoStyles == [id \in {} |-> Null]

\* the styles of parseExcaliDirective(mermaidSource)
parseExcaliDirective(mermaidSource) ==
    LET m == DirectiveMatch(mermaidSource, 1)
        content == Trim(SubSeq(mermaidSource, m[1] + Len(DirectiveOpen), m[2] - 1))
    IN  IF m[1] = 0 THEN NoStyles
        ELSE AssignStyles(NoStyles, StylePairs(StylesContent(content, 1), 1))

\* directive.styles[id]: the own key, else the member inherited from
\* Object.prototype, else undefined (Null)
StyleOf(styles, id) ==
    IF id \in DOMAIN styles THEN styles[id]
    ELSE IF id \in ObjectPrototypeKeys THEN InheritedMember(id)
    ELSE Null

----------------------------------------------------------------------------
(* index.ts: detectDiagramType *)

\* trimmed.replace(/%%\{excali:[\s\S]*?\}%%\s*/, ''): the first match only
RemoveFirstDirective(s) ==
    LET m == DirectiveMatch(s, 1)
    IN  IF m[1] = 0 THEN s
        ELSE SubSeq(s, 1, m[1] - 1)
             \o SubSeq(s, SkipWs(s, m[2] + Len(DirectiveClose)), Len(s))

\* the positions where ^ matches under the m flag
LineStarts(s) == {1} \cup {i + 1 : i \in {j \in 1..Len(s) : Char(s, j) = "\n"}}

\* /^keyword/im
HeaderAt(s, keyword) ==
    \E p \in LineStarts(s) :
        /\ p + Len(keyword) - 1 <= Len(s)
        /\ ToLower(SubSeq(s, p, p + Len(keyword) - 1)) = ToLower(keyword)

\* /^(flowchart|graph)\s/im
FlowchartHeader(s) ==
    \E p \in LineStarts(s) : \E keyword \in {"flowchart", "graph"} :
        /\ p + Len(keyword) <= Len(s)
        /\ ToLower(SubSeq(s, p, p + Len(keyword) - 1)) = keyword
        /\ IsWs(Char(s, p + Len(keyword)))

\* The recursion of detectDiagramType never ends when the text starts with
\* "%%{excali" and the replace removes nothing: the call stack overflows and
\* the RangeError reaches the handler's catch.
RangeError == "RangeError"

RECURSIVE detectDiagramType(_)
detectDiagramType(source) ==
    LET trimmed == Trim(source)
        afterDirective == RemoveFirstDirective(trimmed)
    IN  IF StartsWith(trimmed, "%%{excali")
        THEN IF afterDirective = trimmed THEN RangeError
             ELSE detectDiagramType(afterDirective)
        ELSE IF FlowchartHeader(trimmed) THEN "flowchart"
        ELSE IF HeaderAt(trimmed, "sequenceDiagram") THEN "sequence"
        ELSE IF HeaderAt(trimmed, "erDiagram") THEN "er"
        ELSE Null

----------------------------------------------------------------------------
(* Lines of a source text *)

\* source.split('\n')
RECURSIVE SplitLines(_)
SplitLines(s) ==
    LET n == IndexFrom(s, 1, "\n")
    IN  IF n = 0 THEN <<s>>
        ELSE <<SubSeq(s, 1, n - 1)>> \o SplitLines(SubSeq(s, n + 1, Len(s)))

\* .map(l => l.trim()).filter(l => l && !l.startsWith('%%'))
RECURSIVE SignificantLines(_)
SignificantLines(ls) ==
    IF ls = <<>> THEN <<>>
    ELSE LET l == Trim(Head(ls))
         IN  IF l # "" /\ ~StartsWith(l, "%%")
             THEN <<l>> \o SignificantLines(Tail(ls))
             ELSE SignificantLines(Tail(ls))

\* A request's source is its text (the directive block and the header line)
\* followed by its body lines.  A line of the text is a raw string; in the
\* sequence and ER parsers a raw line that is not the header matches no line
\* pattern (the texts of the model hold no such line).
RawLines(ls) == [i \in 1..Len(ls) |-> [k |-> "text", text |-> ls[i]]]

----------------------------------------------------------------------------
(* parser/sequence.ts *)

\* participantOrder.includes(id)
SeqIncludes(seq, x) == \E i \in 1..Len(seq) : seq[i] = x

inferParticipantStyle(label) ==
    LET lower == ToLower(label)
    IN  IF Includes(lower, "user") \/ Includes(lower, "client") \/ Includes(lower, "actor")
        THEN "user"
        ELSE IF Includes(lower, "api") \/ Includes(lower, "service") \/ Includes(lower, "backend")
        THEN "api"
        ELSE IF Includes(lower, "db") \/ Includes(lower, "database") THEN "db"
        ELSE IF Includes(lower, "cache") \/ Includes(lower, "redis") THEN "cache"
        ELSE IF Includes(lower, "queue") \/ Includes(lower, "kafka") THEN "queue"
        ELSE IF Includes(lower, "gateway") \/ Includes(lower, "proxy") THEN "gateway"
        ELSE IF Includes(lower, "external") \/ Includes(lower, "third") THEN "external"
        ELSE Null

\* the explicit declaration branch of the line loop
SeqDeclare(st, line) ==
    [st EXCEPT
        !.participants = Append(@,
            [id |-> line.id,
             label |-> IF line.alias # Null /\ Trim(line.alias) # ""
                       THEN Trim(line.alias) ELSE line.id,
             type |-> line.ptype]),
        !.participantOrder =
            IF SeqIncludes(@, line.id) THEN @ ELSE Append(@, line.id)]

\* "Add implicit participants" for one end of a message
SeqImplicit(st, id) ==
    IF SeqIncludes(st.participantOrder, id) THEN st
    ELSE [st EXCEPT
            !.participantOrder = Append(@, id),
            !.participants = Append(@, [id |-> id, label |-> id, type |-> "participant"])]

\* the message branch of the line loop
SeqMessage(st, line) ==
    LET st2 == SeqImplicit(SeqImplicit(st, line.from), line.to)
        isDashed == Includes(line.arrow, "--")
        isOpen == ~Includes(line.arrow, ">>")
    IN  [st2 EXCEPT
            !.messages = Append(@,
                [from |-> line.from, to |-> line.to, label |-> Trim(line.label),
                 type |-> IF isDashed
                          THEN (IF isOpen THEN "dashedOpen" ELSE "dashed")
                          ELSE (IF isOpen THEN "solidOpen" ELSE "solid")])]

SeqLine(st, line) ==
    IF line.k = "participant" THEN SeqDeclare(st, line)
    ELSE IF line.k = "message" THEN SeqMessage(st, line)
    ELSE st

RECURSIVE SeqLines(_, _)
SeqLines(st, lines) ==
    IF lines = <<>> THEN st ELSE SeqLines(SeqLine(st, Head(lines)), Tail(lines))

\* nodes: participants.map(...)
SeqNode(p, styles) ==
    [id |-> p.id,
     label |-> p.label,
     shape |-> IF p.type = "actor" THEN "ellipse" ELSE "rectangle",
     styleType |-> IF StyleOf(styles, p.id) # Null THEN StyleOf(styles, p.id)
                   ELSE inferParticipantStyle(p.label)]

\* edges: messages.map(...)
SeqEdge(m) ==
    [source |-> m.from, target |-> m.to, label |-> m.label,
     lineStyle |-> IF m.type = "dashed" \/ m.type = "dashedOpen"
                   THEN "dashed" ELSE "solid"]

parseSequenceDiagram(text, body) ==
    LET styles == parseExcaliDirective(text)
        lines == RawLines(SignificantLines(SplitLines(text))) \o body
        st == SeqLines([participants |-> <<>>, messages |-> <<>>,
                        participantOrder |-> <<>>], lines)
    IN  [type |-> "sequence",
         direction |-> "LR",
         nodes |-> [i \in 1..Len(st.participants) |-> SeqNode(st.participants[i], styles)],
         edges |-> [i \in 1..Len(st.messages) |-> SeqEdge(st.messages[i])],
         subgraphs |-> <<>>,
         styles |-> styles]

----------------------------------------------------------------------------
(* parser/er.ts *)

\* the first cardinality group of relMatch
RelCard1 == {"||", "|o", "o|", "oo", "}|", "}o", "|{", "}{", "o{"}

\* the second cardinality group of relMatch
RelCard2 == {"||", "|o", "o|", "oo", "}|", "}o", "|}", "{|", "{o"}

\* index of the entity named name in the insertion-ordered map, 0 if absent
EntityIndex(entities, name) ==
    IF \E i \in 1..Len(entities) : entities[i].name = name
    THEN CHOOSE i \in 1..Len(entities) : entities[i].name = name
    ELSE 0

\* if (!entities.has(name)) entities.set(name, { name, attributes: [] })
EnsureEntity(entities, name) ==
    IF EntityIndex(entities, name) # 0 THEN entities
    ELSE Append(entities, [name |-> name, attributes |-> <<>>])

ERRelationship(st, e1, c1, c2, e2, label) ==
    [st EXCEPT
        !.entities = EnsureEntity(EnsureEntity(@, e1), e2),
        !.relationships = Append(@,
            [entity1 |-> e1, entity2 |-> e2, cardinality1 |-> c1,
             cardinality2 |-> c2,
             label |-> IF label = Null THEN Null ELSE Trim(label)])]

\* One turn of the line loop.  A line record says which pattern its text has:
\*   entityStart  NAME {
\*   close        }
\*   attr         TYPE NAME [PK|FK|UK]
\*   rel          E1 c1--c2 E2 [: label], "spaced" when whitespace surrounds
\*                the c1--c2 token
ERLine(st, line) ==
    IF line.k = "entityStart"
    THEN [st EXCEPT !.entities = EnsureEntity(@, line.name),
                    !.currentEntity = line.name,
                    !.inEntityBlock = TRUE]
    ELSE IF line.k = "close"
    THEN [st EXCEPT !.currentEntity = Null, !.inEntityBlock = FALSE]
    ELSE IF st.inEntityBlock /\ st.currentEntity # Null
    THEN IF line.k = "attr"
         THEN [st EXCEPT !.entities[EntityIndex(st.entities, st.currentEntity)].attributes =
                  Append(@, [type |-> line.type, name |-> line.name,
                             keys |-> IF line.key = Null THEN <<>> ELSE <<line.key>>])]
         ELSE st
    ELSE IF line.k = "rel" /\ line.card1 \in RelCard1 /\ line.card2 \in RelCard2
    THEN ERRelationship(st, line.entity1, line.card1, line.card2, line.entity2, line.label)
    \* simpleRelMatch: /^(\w+)\s+\S+\s+(\w+)(?:\s*:\s*(.+))?$/
    ELSE IF line.k = "rel" /\ line.spaced
    THEN ERRelationship(st, line.entity1, "||", "o{", line.entity2, line.label)
    ELSE IF line.k = "attr" /\ line.key # Null
    THEN ERRelationship(st, line.type, "||", "o{", line.key, Null)
    ELSE st

RECURSIVE ERLines(_, _)
ERLines(st, lines) ==
    IF lines = <<>> THEN st ELSE ERLines(ERLine(st, Head(lines)), Tail(lines))

RECURSIVE JoinLines(_)
JoinLines(ls) ==
    IF ls = <<>> THEN ""
    ELSE IF Len(ls) = 1 THEN ls[1]
    ELSE ls[1] \o "\n" \o JoinLines(Tail(ls))

formatEntityLabel(entity) ==
    IF Len(entity.attributes) = 0 THEN entity.name
    ELSE entity.name \o "\n" \o
         JoinLines([i \in 1..Len(entity.attributes) |->
            LET a == entity.attributes[i]
            IN  "- " \o a.name \o ": " \o a.type \o
                (IF Len(a.keys) > 0 THEN " [" \o a.keys[1] \o "]" ELSE "")])

\* cardMap[card] || card
CardText(card) ==
    IF card = "||" THEN "1"
    ELSE IF card \in {"|o", "o|", "oo"} THEN "0..1"
    ELSE IF card \in {"}|", "|{", "}{"} THEN "n"
    ELSE IF card \in {"}o", "o{"} THEN "0..n"
    ELSE card

formatCardinality(card1, card2) == CardText(card1) \o ":" \o CardText(card2)

ERNode(e, styles) ==
    [id |-> e.name,
     label |-> formatEntityLabel(e),
     shape |-> "rectangle",
     styleType |-> IF StyleOf(styles, e.name) # Null THEN StyleOf(styles, e.name)
                   ELSE "db"]

\* label: r.label || formatCardinality(...)
EREdge(r) ==
    [source |-> r.entity1, target |-> r.entity2,
     label |-> IF r.label # Null /\ r.label # "" THEN r.label
               ELSE formatCardinality(r.cardinality1, r.cardinality2),
     lineStyle |-> Null]

parseERDiagram(text, body) ==
    LET styles == parseExcaliDirective(text)
        lines == RawLines(SignificantLines(SplitLines(text))) \o body
        st == ERLines([entities |-> <<>>, relationships |-> <<>>,
                       currentEntity |-> Null, inEntityBlock |-> FALSE], lines)
    IN  [type |-> "er",
         direction |-> "LR",
         nodes |-> [i \in 1..Len(st.entities) |-> ERNode(st.entities[i], styles)],
         edges |-> [i \in 1..Len(st.relationships) |-> EREdge(st.relationships[i])],
         subgraphs |-> <<>>,
         styles |-> styles]

----------------------------------------------------------------------------
(* converter/styles.ts *)

\* \b before position i and \b after position j of s
WordBounded(s, i, j) ==
    /\ (i = 1 \/ ~IsWordChar(Char(s, i - 1)))
    /\ (j = Len(s) \/ ~IsWordChar(Char(s, j + 1)))

\* /\b(kw)\b/i, kw a plain word; lower is the label in lower case
HasWord(lower, kw) ==
    \E i \in 1..(Len(lower) - Len(kw) + 1) :
        /\ SubSeq(lower, i, i + Len(kw) - 1) = kw
        /\ WordBounded(lower, i, i + Len(kw) - 1)

\* /\b(a.?b)\b/i
HasWordPair(lower, a, b) ==
    \/ HasWord(lower, a \o b)
    \/ \E i \in 1..(Len(lower) - Len(a) - Len(b)) :
        /\ SubSeq(lower, i, i + Len(a) - 1) = a
        /\ Char(lower, i + Len(a)) # "\n"
        /\ SubSeq(lower, i + Len(a) + 1, i + Len(a) + Len(b)) = b
        /\ WordBounded(lower, i, i + Len(a) + Len(b))

\* SEMANTIC_PATTERNS, in table order
SEMANTIC_PATTERNS ==
    << [words |-> {"database", "db", "postgres", "mysql", "mongo", "sqlite", "dynamo"},
        pairs |-> {}, style |-> "db"],
       [words |-> {"redis", "cache", "memcache"}, pairs |-> {}, style |-> "cache"],
       [words |-> {"queue", "kafka", "rabbit", "sqs", "pubsub"}, pairs |-> {},
        style |-> "queue"],
       [words |-> {"api", "service", "backend", "server"}, pairs |-> {}, style |-> "api"],
       [words |-> {"ui", "frontend", "react", "vue", "angular", "client", "app"},
        pairs |-> {}, style |-> "ui"],
       [words |-> {"gateway", "router", "proxy", "nginx", "kong"}, pairs |-> {},
        style |-> "gateway"],
       [words |-> {"external", "vendor"}, pairs |-> {<<"third", "party">>},
        style |-> "external"],
       [words |-> {"ai", "ml", "agent", "llm", "gpt", "claude"}, pairs |-> {},
        style |-> "agent"],
       [words |-> {"storage", "s3", "blob", "file"}, pairs |-> {}, style |-> "storage"],
       [words |-> {"user", "actor", "client", "customer"}, pairs |-> {}, style |-> "user"],
       [words |-> {"orchestrat", "workflow"}, pairs |-> {<<"step", "function">>},
        style |-> "orchestrator"] >>

PatternTest(pat, lower) ==
    \/ \E w \in pat.words : HasWord(lower, w)
    \/ \E pr \in pat.pairs : HasWordPair(lower, pr[1], pr[2])

\* the first pattern of the table that matches
RECURSIVE FirstPattern(_, _)
FirstPattern(lower, i) ==
    IF i > Len(SEMANTIC_PATTERNS) THEN Null
    ELSE IF PatternTest(SEMANTIC_PATTERNS[i], lower) THEN SEMANTIC_PATTERNS[i].style
    ELSE FirstPattern(lower, i + 1)

inferStyleFromLabel(label) == FirstPattern(ToLower(label), 1)

\* SHAPE_STYLES[shape]
inferStyleFromShape(shape) ==
    IF shape = "cylinder" THEN "db"
    ELSE IF shape = "stadium" THEN "cache"
    ELSE IF shape = "hexagon" THEN "orchestrator"
    ELSE Null

\* resolveStyle with the shape table consulted before the override map: the
\* variant that the precedence of the override rules out
resolveStyle_ShapeFirst(nodeId, label, shape, explicitStyles) ==
    IF inferStyleFromShape(shape) # Null THEN inferStyleFromShape(shape)
    ELSE IF StyleOf(explicitStyles, nodeId) # Null THEN StyleOf(explicitStyles, nodeId)
    ELSE inferStyleFromLabel(label)

resolveStyle(nodeId, label, shape, explicitStyles) ==
    IF StyleOf(explicitStyles, nodeId) # Null THEN StyleOf(explicitStyles, nodeId)
    ELSE IF inferStyleFromShape(shape) # Null THEN inferStyleFromShape(shape)
    ELSE inferStyleFromLabel(label)

----------------------------------------------------------------------------
(* parser/flowchart.ts *)

\* SHAPE_PATTERNS, in trial order: /open(.+?)close/
SHAPE_PATTERNS ==
    << [open |-> "[(", close |-> ")]", shape |-> "cylinder"],
       [open |-> "([", close |-> "])", shape |-> "stadium"],
       [open |-> "{{", close |-> "}}", shape |-> "hexagon"],
       [open |-> "((", close |-> "))", shape |-> "ellipse"],
       [open |-> "{", close |-> "}", shape |-> "diamond"],
       [open |-> "[", close |-> "]", shape |-> "rectangle"],
       [open |-> "(", close |-> ")", shape |-> "ellipse"] >>

\* rest.match(/open(.+?)close/): the capture of the leftmost match, the
\* shortest for that start; Null when there is no match
RECURSIVE ShapeMatch(_, _, _, _)
ShapeMatch(rest, open, close, i) ==
    LET o == IndexFrom(rest, i, open)
        c == IndexFrom(rest, o + Len(open) + 1, close)
    IN  IF o = 0 THEN Null
        ELSE IF c # 0 THEN SubSeq(rest, o + Len(open), c - 1)
        ELSE ShapeMatch(rest, open, close, o + 1)

NoNode == [id |-> Null, label |-> Null, shape |-> Null]

parseNodeDefinition(text) ==
    LET idEnd == IF text # "" /\ IsIdStart(Head(text)) THEN SkipWord(text, 1) ELSE 0
        id == SubSeq(text, 1, idEnd - 1)
        rest == SubSeq(text, SkipWs(text, idEnd), Len(text))
        hits == {k \in 1..Len(SHAPE_PATTERNS) :
                    ShapeMatch(rest, SHAPE_PATTERNS[k].open, SHAPE_PATTERNS[k].close, 1) # Null}
        first == CHOOSE k \in hits : \A j \in hits : k <= j
    IN  IF idEnd = 0 THEN NoNode
        ELSE IF hits # {}
        THEN [id |-> id,
              label |-> Trim(ShapeMatch(rest, SHAPE_PATTERNS[first].open,
                                        SHAPE_PATTERNS[first].close, 1)),
              shape |-> SHAPE_PATTERNS[first].shape]
        \* plainMatch: /^([A-Za-z_][A-Za-z0-9_]*)$/
        ELSE IF idEnd = Len(text) + 1
        THEN [id |-> id, label |-> id, shape |-> "rectangle"]
        ELSE NoNode

\* An edge line record holds the groups of the pattern of parseEdgeLine:
\* sourceId, sourceShape (group 2: the whitespace after the id and the
\* bracketed text, "" when the arrow follows the id directly), arrow,
\* edgeLabel (Null when absent), targetId, targetShape.
parseEdgeLine(line) ==
    [sourceNode |-> IF line.sourceShape # ""
                    THEN parseNodeDefinition(line.sourceId \o line.sourceShape)
                    ELSE [id |-> line.sourceId, label |-> line.sourceId, shape |-> "rectangle"],
     targetNode |-> IF line.targetShape # ""
                    THEN parseNodeDefinition(line.targetId \o line.targetShape)
                    ELSE [id |-> line.targetId, label |-> line.targetId, shape |-> "rectangle"],
     edge |-> [source |-> line.sourceId, target |-> line.targetId,
               label |-> IF line.edgeLabel = Null THEN Null ELSE Trim(line.edgeLabel)]]

\* the text of a body line
LineText(line) ==
    IF line.k = "edge"
    THEN line.sourceId \o line.sourceShape \o line.arrow
         \o (IF line.edgeLabel = Null THEN "" ELSE "|" \o line.edgeLabel \o "|")
         \o (IF line.sourceShape = "" THEN "" ELSE " ")
         \o line.targetId \o line.targetShape
    ELSE IF line.k = "subgraph"
    THEN "subgraph " \o line.id \o (IF line.label = Null THEN "" ELSE " [" \o line.label \o "]")
    ELSE IF line.k = "end" THEN "end"
    ELSE line.text

KEYWORDS == {"subgraph", "end", "flowchart", "graph", "direction"}

\* the matches of /\b([A-Za-z_][A-Za-z0-9_]*)\s*(?:\[|\(|\{|$|-->|---)/g from p on
RECURSIVE extractNodeIds(_, _)
extractNodeIds(line, p) ==
    IF p > Len(line) THEN <<>>
    ELSE IF ~IsWordChar(Char(line, p)) THEN extractNodeIds(line, p + 1)
    ELSE LET q == SkipWord(line, p)
             r == SkipWs(line, q)
             id == SubSeq(line, p, q - 1)
             stop == IF r > Len(line) THEN r
                     ELSE IF Char(line, r) \in {"[", "(", "{"} THEN r + 1
                     ELSE IF StartsWithAt(line, r, "-->") \/ StartsWithAt(line, r, "---")
                     THEN r + 3
                     ELSE 0
         IN  IF IsIdStart(Char(line, p)) /\ stop # 0
             THEN (IF ToLower(id) \in KEYWORDS THEN <<>> ELSE <<id>>)
                  \o extractNodeIds(line, stop)
             ELSE extractNodeIds(line, q)

RECURSIVE AddMembers(_, _)
AddMembers(members, ids) ==
    IF ids = <<>> THEN members
    ELSE AddMembers(IF SeqIncludes(members, Head(ids)) THEN members
                    ELSE Append(members, Head(ids)), Tail(ids))

NoSubgraph == [id |-> Null, label |-> Null, nodes |-> <<>>]

\* one turn of the line loop of parseSubgraphs
SubgraphLine(st, line) ==
    IF line.k = "subgraph"
    THEN [st EXCEPT
            !.currentSubgraph =
                IF st.depth = 0
                THEN [id |-> line.id,
                      label |-> IF line.label # Null /\ line.label # ""
                                THEN line.label ELSE line.id,
                      nodes |-> <<>>]
                ELSE @,
            !.depth = @ + 1]
    ELSE IF LineText(line) = "end"
    THEN IF st.depth - 1 = 0 /\ st.currentSubgraph # NoSubgraph
         THEN [st EXCEPT !.depth = @ - 1,
                         !.subgraphs = Append(@, st.currentSubgraph),
                         !.currentSubgraph = NoSubgraph]
         ELSE [st EXCEPT !.depth = @ - 1]
    ELSE IF st.currentSubgraph # NoSubgraph /\ st.depth = 1
    THEN [st EXCEPT !.currentSubgraph.nodes =
                        AddMembers(@, extractNodeIds(LineText(line), 1))]
    ELSE st

RECURSIVE SubgraphLines(_, _)
SubgraphLines(st, lines) ==
    IF lines = <<>> THEN st
    ELSE SubgraphLines(SubgraphLine(st, Head(lines)), Tail(lines))

parseSubgraphs(lines) ==
    SubgraphLines([subgraphs |-> <<>>, currentSubgraph |-> NoSubgraph, depth |-> 0],
                  lines).subgraphs

Directions == {"TD", "TB", "LR", "RL", "BT"}

\* the direction that /(?:flowchart|graph)\s+(TD|TB|LR|RL|BT)/i captures when
\* it matches at position p of headerLine, else Null
DirectionAt(headerLine, p) ==
    LET lower == ToLower(headerLine)
        kwEnd == IF StartsWithAt(lower, p, "flowchart") THEN p + 9
                 ELSE IF StartsWithAt(lower, p, "graph") THEN p + 5
                 ELSE 0
        d == SkipWs(headerLine, kwEnd)
    IN  IF kwEnd # 0 /\ d > kwEnd /\ d + 1 <= Len(headerLine)
           /\ \E t \in Directions : ToLower(t) = SubSeq(lower, d, d + 1)
        THEN CHOOSE t \in Directions : ToLower(t) = SubSeq(lower, d, d + 1)
        ELSE Null

parseDirection(headerLine) ==
    LET hits == {p \in 1..Len(headerLine) : DirectionAt(headerLine, p) # Null}
    IN  IF hits = {} THEN "TD"
        ELSE DirectionAt(headerLine, CHOOSE p \in hits : \A q \in hits : p <= q)

\* index of the node with this id in the insertion-ordered nodesMap, 0 if absent
NodeIndex(nodesMap, id) ==
    IF \E i \in 1..Len(nodesMap) : nodesMap[i].id = id
    THEN CHOOSE i \in 1..Len(nodesMap) : nodesMap[i].id = id
    ELSE 0

\* if (node && !nodesMap.has(node.id)) nodesMap.set(node.id, node)
AddNode(nodesMap, node) ==
    IF node # NoNode /\ NodeIndex(nodesMap, node.id) = 0
    THEN Append(nodesMap, node)
    ELSE nodesMap

\* one turn of the line loop of parseFlowchart
FlowLine(st, line) ==
    IF StartsWith(LineText(line), "subgraph") \/ LineText(line) = "end" THEN st
    ELSE IF line.k = "edge"
    THEN LET edgeResult == parseEdgeLine(line)
         IN  [st EXCEPT
                !.nodesMap = AddNode(AddNode(@, edgeResult.sourceNode),
                                     edgeResult.targetNode),
                !.edges = Append(@, edgeResult.edge)]
    ELSE [st EXCEPT !.nodesMap = AddNode(@, parseNodeDefinition(line.text))]

RECURSIVE FlowLines(_, _)
FlowLines(st, lines) ==
    IF lines = <<>> THEN st ELSE FlowLines(FlowLine(st, Head(lines)), Tail(lines))

FlowNode(node, styles) ==
    [id |-> node.id, label |-> node.label, shape |-> node.shape,
     styleType |-> resolveStyle(node.id, node.label, node.shape, styles)]

FlowEdge(edge) ==
    [source |-> edge.source, target |-> edge.target, label |-> edge.label,
     lineStyle |-> Null]

FlowSubgraph(sg, styles) ==
    [id |-> sg.id, label |-> sg.label, nodes |-> sg.nodes,
     styleType |-> IF StyleOf(styles, sg.id) # Null THEN StyleOf(styles, sg.id)
                   ELSE "group"]

parseFlowchart(text, body) ==
    LET styles == parseExcaliDirective(text)
        cleanSource == stripExcaliDirective(text)
        lines == RawLines(SignificantLines(SplitLines(cleanSource))) \o body
        headerLine == IF lines = <<>> THEN "" ELSE LineText(lines[1])
        subgraphs == parseSubgraphs(RawLines(SplitLines(cleanSource)) \o body)
        st == FlowLines([nodesMap |-> <<>>, edges |-> <<>>],
                        IF lines = <<>> THEN <<>> ELSE Tail(lines))
    IN  [type |-> "flowchart",
         direction |-> parseDirection(headerLine),
         nodes |-> [i \in 1..Len(st.nodesMap) |-> FlowNode(st.nodesMap[i], styles)],
         edges |-> [i \in 1..Len(st.edges) |-> FlowEdge(st.edges[i])],
         subgraphs |-> [i \in 1..Len(subgraphs) |-> FlowSubgraph(subgraphs[i], styles)],
         styles |-> styles]

\* index.ts: parseDiagram
parseDiagram(text, body, type) ==
    IF type = "flowchart" THEN parseFlowchart(text, body)
    ELSE IF type = "sequence" THEN parseSequenceDiagram(text, body)
    ELSE parseERDiagram(text, body)

----------------------------------------------------------------------------
(* converter/layout.ts *)

\* Lengths are kept in hundredths of a pixel, so that the halves and the
\* 0.55 character width of the code stay integers.
Unit == 4 * 25
Px(n) == n * Unit

DEFAULT_NODE_WIDTH == 160
DEFAULT_NODE_HEIGHT == 60
HORIZONTAL_GAP == 80
VERTICAL_GAP == 100
SUBGRAPH_PADDING == 40
LABEL_HEIGHT == 30
SEQUENCE_MESSAGE_GAP == 60

Max(a, b) == IF a >= b THEN a ELSE b
Min(a, b) == IF a <= b THEN a ELSE b
Abs(a) == IF a >= 0 THEN a ELSE -a

SetMax(S) == CHOOSE x \in S : \A y \in S : y <= x
SetMin(S) == CHOOSE x \in S : \A y \in S : x <= y

\* Math.max(...label.split('\n').map(l => l.length))
MaxLineLength(label) ==
    LET lines == SplitLines(label)
    IN  SetMax({Len(lines[i]) : i \in 1..Len(lines)})

LineCount(label) == Len(SplitLines(label))

calculateNodeSize(label) ==
    [width |-> Px(Max(DEFAULT_NODE_WIDTH, MaxLineLength(label) * 9 + 20)),
     height |-> Px(Max(DEFAULT_NODE_HEIGHT, LineCount(label) * 20 + 20))]

\* nodePositions.set(id, pos) on a Map kept as a function over its keys
MapSet(map, key, value) ==
    [k \in (DOMAIN map) \cup {key} |-> IF k = key THEN value ELSE map[k]]

MapHas(map, key) == key \in DOMAIN map

EmptyMap == [k \in {} |-> Null]

\* the participant loop of layoutSequenceDiagram
RECURSIVE SeqPlace(_, _, _)
SeqPlace(nodes, x, nodePositions) ==
    IF nodes = <<>> THEN nodePositions
    ELSE LET node == Head(nodes)
             size == calculateNodeSize(node.label)
         IN  SeqPlace(Tail(nodes),
                      x + Max(size.width, Px(120)) + Px(HORIZONTAL_GAP) + Px(40),
                      MapSet(nodePositions, node.id,
                             [id |-> node.id, x |-> x, y |-> 0,
                              width |-> Max(size.width, Px(120)),
                              height |-> size.height]))

\* the message loop without the advance of messageY: every message on the
\* first row
RECURSIVE SeqMessages_SharedRow(_, _, _)
SeqMessages_SharedRow(edges, messageY, nodePositions) ==
    IF edges = <<>> THEN <<>>
    ELSE LET edge == Head(edges)
         IN  IF MapHas(nodePositions, edge.source) /\ MapHas(nodePositions, edge.target)
             THEN LET source == nodePositions[edge.source]
                      target == nodePositions[edge.target]
                  IN  <<[source |-> edge.source, target |-> edge.target,
                         points |-> <<[x |-> source.x + source.width \div 2, y |-> messageY],
                                      [x |-> target.x + target.width \div 2, y |-> messageY]>>,
                         label |-> edge.label, lineStyle |-> Null]>>
                      \o SeqMessages_SharedRow(Tail(edges), messageY, nodePositions)
             ELSE SeqMessages_SharedRow(Tail(edges), messageY, nodePositions)

\* the message loop of layoutSequenceDiagram
RECURSIVE SeqMessages(_, _, _)
SeqMessages(edges, messageY, nodePositions) ==
    IF edges = <<>> THEN <<>>
    ELSE LET edge == Head(edges)
         IN  IF MapHas(nodePositions, edge.source) /\ MapHas(nodePositions, edge.target)
             THEN LET source == nodePositions[edge.source]
                      target == nodePositions[edge.target]
                  IN  <<[source |-> edge.source, target |-> edge.target,
                         points |-> <<[x |-> source.x + source.width \div 2, y |-> messageY],
                                      [x |-> target.x + target.width \div 2, y |-> messageY]>>,
                         label |-> edge.label, lineStyle |-> Null]>>
                      \o SeqMessages(Tail(edges), messageY + Px(SEQUENCE_MESSAGE_GAP),
                                     nodePositions)
             ELSE SeqMessages(Tail(edges), messageY, nodePositions)

\* width and height of a LayoutResult are read by no caller and are left out
layoutSequenceDiagram(d) ==
    LET nodePositions == SeqPlace(d.nodes, 0, EmptyMap)
    IN  [nodes |-> nodePositions,
         edges |-> SeqMessages(d.edges, Px(DEFAULT_NODE_HEIGHT) + Px(60), nodePositions),
         subgraphs |-> <<>>]

\* the column count taken from the bare square root: Math.ceil(Math.sqrt(n))
ERCols_SquareRoot(n) ==
    Min(4, CHOOSE c \in 0..n : c * c >= n /\ \A b \in 0..n : b * b >= n => c <= b)

\* Math.min(4, Math.ceil(Math.sqrt(n) * 1.5))
ERCols(n) ==
    Min(4, CHOOSE c \in 0..(2 * n) :
              /\ 4 * c * c >= 9 * n
              /\ \A b \in 0..(2 * n) : 4 * b * b >= 9 * n => c <= b)

\* the placement loop of layoutERDiagram
RECURSIVE ERPlace(_, _, _, _, _, _, _)
ERPlace(nodes, cols, x, y, col, maxRowHeight, nodePositions) ==
    IF nodes = <<>> THEN nodePositions
    ELSE LET node == Head(nodes)
             size == calculateNodeSize(node.label)
             placed == MapSet(nodePositions, node.id,
                              [id |-> node.id, x |-> x, y |-> y,
                               width |-> size.width, height |-> size.height])
             rowHeight == Max(maxRowHeight, size.height)
         IN  IF col + 1 >= cols
             THEN ERPlace(Tail(nodes), cols, 0,
                          y + rowHeight + Px(VERTICAL_GAP) + Px(40), 0, 0, placed)
             ELSE ERPlace(Tail(nodes), cols, x + size.width + Px(HORIZONTAL_GAP) + Px(60),
                          y, col + 1, rowHeight, placed)

NoPoints == <<>>

layoutEdgeGenericWithOffset(edge, nodePositions, index) ==
    IF ~MapHas(nodePositions, edge.source) \/ ~MapHas(nodePositions, edge.target)
    THEN [source |-> edge.source, target |-> edge.target, points |-> NoPoints,
          label |-> edge.label, lineStyle |-> Null]
    ELSE LET source == nodePositions[edge.source]
             target == nodePositions[edge.target]
             offset == ((index % 3) - 1) * Px(15)
             sourceCenterX == source.x + source.width \div 2
             sourceCenterY == source.y + source.height \div 2
             targetCenterX == target.x + target.width \div 2
             targetCenterY == target.y + target.height \div 2
             dx == targetCenterX - sourceCenterX
             dy == targetCenterY - sourceCenterY
             points ==
                IF Abs(dx) > Abs(dy)
                THEN IF dx > 0
                     THEN <<[x |-> source.x + source.width, y |-> sourceCenterY + offset],
                            [x |-> target.x, y |-> targetCenterY + offset]>>
                     ELSE <<[x |-> source.x, y |-> sourceCenterY + offset],
                            [x |-> target.x + target.width, y |-> targetCenterY + offset]>>
                ELSE IF dy > 0
                     THEN <<[x |-> sourceCenterX + offset, y |-> source.y + source.height],
                            [x |-> targetCenterX + offset, y |-> target.y]>>
                     ELSE <<[x |-> sourceCenterX + offset, y |-> source.y],
                            [x |-> targetCenterX + offset, y |-> target.y + target.height]>>
         IN  [source |-> edge.source, target |-> edge.target, points |-> points,
              label |-> edge.label, lineStyle |-> Null]

layoutERDiagram(d) ==
    LET nodePositions == ERPlace(d.nodes, ERCols(Len(d.nodes)), 0, 0, 0, 0, EmptyMap)
    IN  [nodes |-> nodePositions,
         \* edges.map((edge, index) => ...): index counts from 0
         edges |-> [i \in 1..Len(d.edges) |->
                      layoutEdgeGenericWithOffset(d.edges[i], nodePositions, i - 1)],
         subgraphs |-> <<>>]

\* buildAdjacency: for every node id its incoming and outgoing id lists
RECURSIVE AdjacencyEdges(_, _)
AdjacencyEdges(adjacency, edges) ==
    IF edges = <<>> THEN adjacency
    ELSE LET edge == Head(edges)
             withOut == IF MapHas(adjacency, edge.source)
                        THEN [adjacency EXCEPT ![edge.source].outgoing = Append(@, edge.target)]
                        ELSE adjacency
             withIn == IF MapHas(withOut, edge.target)
                       THEN [withOut EXCEPT ![edge.target].incoming = Append(@, edge.source)]
                       ELSE withOut
         IN  AdjacencyEdges(withIn, Tail(edges))

buildAdjacency(nodes, edges) ==
    AdjacencyEdges([id \in {nodes[i].id : i \in 1..Len(nodes)} |->
                       [incoming |-> <<>>, outgoing |-> <<>>]],
                   edges)

\* nodes.filter(n => adjacency.get(n.id).incoming.length === 0), as queue entries
RECURSIVE RootEntries(_, _)
RootEntries(nodes, adjacency) ==
    IF nodes = <<>> THEN <<>>
    ELSE (IF Len(adjacency[Head(nodes).id].incoming) = 0
          THEN <<[id |-> Head(nodes).id, depth |-> 0]>> ELSE <<>>)
         \o RootEntries(Tail(nodes), adjacency)

\* one turn of the while loop of calculateDepths: queue.shift() and its effect
DepthsTurn(queue, visited, depths, adjacency) ==
    LET id == Head(queue).id
        depth == Head(queue).depth
    IN  IF id \in visited
        THEN [queue |-> Tail(queue),
              visited |-> visited,
              depths |-> IF depth > depths[id] THEN MapSet(depths, id, depth) ELSE depths]
        ELSE [queue |-> Tail(queue) \o
                        (IF MapHas(adjacency, id)
                         THEN [i \in 1..Len(adjacency[id].outgoing) |->
                                 [id |-> adjacency[id].outgoing[i], depth |-> depth + 1]]
                         ELSE <<>>),
              visited |-> visited \cup {id},
              depths |-> MapSet(depths, id, depth)]

\* the while loop of calculateDepths
RECURSIVE DepthsLoop(_, _, _, _)
DepthsLoop(queue, visited, depths, adjacency) ==
    IF queue = <<>> THEN depths
    ELSE LET turn == DepthsTurn(queue, visited, depths, adjacency)
         IN  DepthsLoop(turn.queue, turn.visited, turn.depths, adjacency)

\* the variant without the closing loop: a node the walk did not reach keeps no depth
DisconnectedDepths_None(nodes, depths) == depths

\* "Handle disconnected nodes": if (!depths.has(node.id)) depths.set(node.id, 0)
DisconnectedDepths(nodes, depths) ==
    [id \in (DOMAIN depths) \cup {nodes[i].id : i \in 1..Len(nodes)} |->
        IF id \in DOMAIN depths THEN depths[id] ELSE 0]

calculateDepths(nodes, adjacency) ==
    DisconnectedDepths(nodes,
        DepthsLoop(RootEntries(nodes, adjacency), {}, EmptyMap, adjacency))

\* filter of a sequence
RECURSIVE NodesAtDepth(_, _, _)
NodesAtDepth(nodes, depths, depth) ==
    IF nodes = <<>> THEN <<>>
    ELSE (IF depths[Head(nodes).id] = depth THEN <<Head(nodes)>> ELSE <<>>)
         \o NodesAtDepth(Tail(nodes), depths, depth)

\* groups[k + 1] holds the nodes of depth k, in node order
groupByDepth(nodes, depths) ==
    IF DOMAIN depths = {} THEN <<>>
    ELSE [k \in 1..(SetMax({depths[id] : id \in DOMAIN depths}) + 1) |->
            NodesAtDepth(nodes, depths, k - 1)]

\* the position that the forEach loops of layoutFlowchart give to the node at
\* column colIndex of row depthIndex (both counted from 0)
FlowPosition(node, depthIndex, colIndex, rowLength, rowCount, maxNodesInRow, isHorizontal, isReverse) ==
    LET rowWidth == rowLength * Px(DEFAULT_NODE_WIDTH + HORIZONTAL_GAP) - Px(HORIZONTAL_GAP)
        startOffset == ((maxNodesInRow * Px(DEFAULT_NODE_WIDTH + HORIZONTAL_GAP)
                         - Px(HORIZONTAL_GAP)) - rowWidth) \div 2
        maxDepth == rowCount - 1
        x == IF isHorizontal
             THEN (IF isReverse THEN maxDepth - depthIndex ELSE depthIndex)
                  * Px(DEFAULT_NODE_WIDTH + HORIZONTAL_GAP)
             ELSE startOffset + colIndex * Px(DEFAULT_NODE_WIDTH + HORIZONTAL_GAP)
        y == IF isHorizontal
             THEN startOffset + colIndex * Px(DEFAULT_NODE_HEIGHT + VERTICAL_GAP)
             ELSE (IF isReverse THEN maxDepth - depthIndex ELSE depthIndex)
                  * Px(DEFAULT_NODE_HEIGHT + VERTICAL_GAP)
    IN  [id |-> node.id, x |-> x, y |-> y,
         width |-> Px(DEFAULT_NODE_WIDTH), height |-> Px(DEFAULT_NODE_HEIGHT)]

layoutSubgraph(sg, nodePositions) ==
    LET members == {sg.nodes[i] : i \in 1..Len(sg.nodes)} \cap DOMAIN nodePositions
        minX == SetMin({nodePositions[m].x : m \in members})
        minY == SetMin({nodePositions[m].y : m \in members})
        maxX == SetMax({nodePositions[m].x + nodePositions[m].width : m \in members})
        maxY == SetMax({nodePositions[m].y + nodePositions[m].height : m \in members})
    IN  IF members = {}
        THEN [id |-> sg.id, x |-> 0, y |-> 0,
              width |-> Px(DEFAULT_NODE_WIDTH + SUBGRAPH_PADDING * 2),
              height |-> Px(DEFAULT_NODE_HEIGHT + SUBGRAPH_PADDING * 2 + LABEL_HEIGHT),
              label |-> sg.label]
        ELSE [id |-> sg.id,
              x |-> minX - Px(SUBGRAPH_PADDING),
              y |-> minY - Px(SUBGRAPH_PADDING) - Px(LABEL_HEIGHT),
              width |-> maxX - minX + Px(SUBGRAPH_PADDING * 2),
              height |-> maxY - minY + Px(SUBGRAPH_PADDING * 2) + Px(LABEL_HEIGHT),
              label |-> sg.label]

layoutEdge(edge, nodePositions, isHorizontal) ==
    IF ~MapHas(nodePositions, edge.source) \/ ~MapHas(nodePositions, edge.target)
    THEN [source |-> edge.source, target |-> edge.target, points |-> NoPoints,
          label |-> edge.label, lineStyle |-> edge.lineStyle]
    ELSE LET source == nodePositions[edge.source]
             target == nodePositions[edge.target]
             points ==
                IF isHorizontal
                THEN IF source.x < target.x
                     THEN <<[x |-> source.x + source.width, y |-> source.y + source.height \div 2],
                            [x |-> target.x, y |-> target.y + target.height \div 2]>>
                     ELSE <<[x |-> source.x, y |-> source.y + source.height \div 2],
                            [x |-> target.x + target.width, y |-> target.y + target.height \div 2]>>
                ELSE IF source.y < target.y
                     THEN <<[x |-> source.x + source.width \div 2, y |-> source.y + source.height],
                            [x |-> target.x + target.width \div 2, y |-> target.y]>>
                     ELSE <<[x |-> source.x + source.width \div 2, y |-> source.y],
                            [x |-> target.x + target.width \div 2, y |-> target.y + target.height]>>
         IN  [source |-> edge.source, target |-> edge.target, points |-> points,
              label |-> edge.label, lineStyle |-> edge.lineStyle]

layoutFlowchart(d) ==
    LET isHorizontal == d.direction \in {"LR", "RL"}
        isReverse == d.direction \in {"RL", "BT"}
        adjacency == buildAdjacency(d.nodes, d.edges)
        depths == calculateDepths(d.nodes, adjacency)
        nodesByDepth == groupByDepth(d.nodes, depths)
        maxNodesInRow == IF nodesByDepth = <<>> THEN 0
                         ELSE SetMax({Len(nodesByDepth[k]) : k \in 1..Len(nodesByDepth)})
        nodePositions ==
            [id \in {d.nodes[i].id : i \in 1..Len(d.nodes)} |->
                LET row == nodesByDepth[depths[id] + 1]
                    col == CHOOSE c \in 1..Len(row) : row[c].id = id
                IN  FlowPosition(row[col], depths[id], col - 1, Len(row),
                                 Len(nodesByDepth), maxNodesInRow, isHorizontal, isReverse)]
    IN  [nodes |-> nodePositions,
         edges |-> [i \in 1..Len(d.edges) |-> layoutEdge(d.edges[i], nodePositions, isHorizontal)],
         subgraphs |-> [i \in 1..Len(d.subgraphs) |-> layoutSubgraph(d.subgraphs[i], nodePositions)]]

\* layoutDiagram
layoutDiagram(d) ==
    IF d.type = "sequence" THEN layoutSequenceDiagram(d)
    ELSE IF d.type = "er" THEN layoutERDiagram(d)
    ELSE layoutFlowchart(d)

----------------------------------------------------------------------------
(* converter/styles.ts: palette; converter/elements.ts *)

DEFAULT_STYLE == [backgroundColor |-> "#e9ecef", strokeColor |-> "#495057"]

COLOR_PALETTE ==
    [st \in VALID_STYLES |->
        CASE st = "ui" -> [backgroundColor |-> "#a5d8ff", strokeColor |-> "#1971c2"]
          [] st = "api" -> [backgroundColor |-> "#d0bfff", strokeColor |-> "#7048e8"]
          [] st = "db" -> [backgroundColor |-> "#b2f2bb", strokeColor |-> "#2f9e44"]
          [] st = "cache" -> [backgroundColor |-> "#ffe8cc", strokeColor |-> "#fd7e14"]
          [] st = "queue" -> [backgroundColor |-> "#fff3bf", strokeColor |-> "#fab005"]
          [] st = "gateway" -> [backgroundColor |-> "#dee2e6", strokeColor |-> "#495057"]
          [] st = "external" -> [backgroundColor |-> "#ffc9c9", strokeColor |-> "#e03131"]
          [] st = "agent" -> [backgroundColor |-> "#e599f7", strokeColor |-> "#9c36b5"]
          [] st = "storage" -> [backgroundColor |-> "#ffec99", strokeColor |-> "#f08c00"]
          [] st = "user" -> [backgroundColor |-> "#e7f5ff", strokeColor |-> "#1971c2"]
          [] st = "orchestrator" -> [backgroundColor |-> "#ffa8a8", strokeColor |-> "#c92a2a"]
          [] st = "problem" -> [backgroundColor |-> "#ffc9c9", strokeColor |-> "#c92a2a"]
          [] st = "solution" -> [backgroundColor |-> "#b2f2bb", strokeColor |-> "#087f5b"]
          [] st = "highlight" -> [backgroundColor |-> "#e5dbff", strokeColor |-> "#5f3dc4"]
          [] OTHER -> [backgroundColor |-> "transparent", strokeColor |-> "#868e96"]]

getStyleColors(styleType) ==
    IF styleType \in VALID_STYLES THEN COLOR_PALETTE[styleType] ELSE DEFAULT_STYLE

\* generateId draws eight random characters; the model takes every draw to
\* be a fresh identity, named by the number of draws made so far.
IdentityOf(n) == "id" \o ToString(n)

\* createBaseElement taking the order token from the process-wide seed
\* counter instead of the conversion's own index counter
createBaseElement_SharedIndex(gen, type, x, y, width, height) ==
    [id |-> IdentityOf(gen.id + 1),
     type |-> type,
     x |-> x, y |-> y, width |-> width, height |-> height,
     strokeColor |-> "#1e1e1e",
     backgroundColor |-> "transparent",
     strokeWidth |-> 1,
     strokeStyle |-> "solid",
     index |-> "a" \o ToString(gen.seed - 1000),
     seed |-> gen.seed,
     boundElements |-> <<>>,
     text |-> Null,
     fontSize |-> 0,
     textAlign |-> Null,
     points |-> NoPoints,
     startBinding |-> Null,
     endBinding |-> Null]

\* The generators a conversion threads through its element constructors:
\* index is indexCounter of convertToExcalidraw, seed is seedCounter, id
\* counts the calls of generateId.
\* createBaseElement.  Attributes that are the same constant in every
\* element (angle, fillStyle, roughness, opacity, ...) are left out; a
\* binding or text that an element type does not have is Null.
createBaseElement(gen, type, x, y, width, height) ==
    [id |-> IdentityOf(gen.id + 1),
     type |-> type,
     x |-> x, y |-> y, width |-> width, height |-> height,
     strokeColor |-> "#1e1e1e",
     backgroundColor |-> "transparent",
     strokeWidth |-> 1,
     strokeStyle |-> "solid",
     index |-> "a" \o ToString(gen.index),
     seed |-> gen.seed,
     boundElements |-> <<>>,
     text |-> Null,
     fontSize |-> 0,
     textAlign |-> Null,
     points |-> NoPoints,
     startBinding |-> Null,
     endBinding |-> Null]

\* creating an element without the increment of seedCounter
Advance_SeedKept(gen, ids) ==
    [gen EXCEPT !.index = @ + 1, !.id = @ + ids]

\* what creating one element does to the generators: nextIndex(),
\* generateSeed() and ids calls of generateId()
Advance(gen, ids) ==
    [gen EXCEPT !.index = @ + 1, !.seed = @ + 1, !.id = @ + ids]

createRectangle(gen, l, node) ==
    [createBaseElement(gen, "rectangle", l.x, l.y, l.width, l.height) EXCEPT
        !.strokeColor = getStyleColors(node.styleType).strokeColor,
        !.backgroundColor = getStyleColors(node.styleType).backgroundColor]

createEllipse(gen, l, node) ==
    [createBaseElement(gen, "ellipse", l.x, l.y, l.width, l.height) EXCEPT
        !.strokeColor = getStyleColors(node.styleType).strokeColor,
        !.backgroundColor = getStyleColors(node.styleType).backgroundColor]

\* createText calls generateId a second time and keeps that identity
createText(gen, x, y, text, fontSize, textAlign, strokeColor) ==
    [createBaseElement(gen, "text", x, y,
                       MaxLineLength(text) * fontSize * 55,
                       LineCount(text) * fontSize * 125) EXCEPT
        !.id = IdentityOf(gen.id + 2),
        !.strokeColor = strokeColor,
        !.text = text,
        !.fontSize = fontSize,
        !.textAlign = textAlign]

createArrow(gen, edge, strokeStyle, startBinding, endBinding) ==
    IF Len(edge.points) < 2
    THEN \* "Fallback for empty edges"
         createBaseElement(gen, "arrow", 0, 0, 0, 0)
    ELSE LET startPoint == edge.points[1]
             endPoint == edge.points[Len(edge.points)]
         IN  [createBaseElement(gen, "arrow", startPoint.x, startPoint.y,
                                Abs(endPoint.x - startPoint.x),
                                Abs(endPoint.y - startPoint.y)) EXCEPT
                !.strokeStyle = strokeStyle,
                !.points = [i \in 1..Len(edge.points) |->
                              [x |-> edge.points[i].x - startPoint.x,
                               y |-> edge.points[i].y - startPoint.y]],
                !.startBinding = startBinding,
                !.endBinding = endBinding]

createLine(gen, x1, y1, x2, y2, strokeColor, strokeStyle) ==
    [createBaseElement(gen, "line", x1, y1, Abs(x2 - x1), Abs(y2 - y1)) EXCEPT
        !.strokeColor = strokeColor,
        !.strokeStyle = strokeStyle,
        !.points = <<[x |-> 0, y |-> 0], [x |-> x2 - x1, y |-> y2 - y1]>>]

\* createSubgraphRect drawing the background as a closed line instead of a
\* rectangle
createSubgraphRect_AsLine(gen, l, subgraph) ==
    [createBaseElement(gen, "line", l.x, l.y, l.width, l.height) EXCEPT
        !.strokeColor = getStyleColors(subgraph.styleType).strokeColor,
        !.strokeStyle = "dashed",
        !.strokeWidth = 2]

createSubgraphRect(gen, l, subgraph) ==
    [createBaseElement(gen, "rectangle", l.x, l.y, l.width, l.height) EXCEPT
        !.strokeColor = getStyleColors(subgraph.styleType).strokeColor,
        !.strokeStyle = "dashed",
        !.strokeWidth = 2]

nodeShapeToElement(gen, l, node) ==
    IF node.shape \in {"ellipse", "cylinder"}
    THEN createEllipse(gen, l, node)
    ELSE createRectangle(gen, l, node)

\* the text of createNodeWithLabel, created after the shape
NodeLabelText(gen, l, node) ==
    LET textWidth == MaxLineLength(node.label) * 16 * 55
        textHeight == LineCount(node.label) * 16 * 125
    IN  createText(gen,
                   l.x + (l.width - textWidth) \div 2,
                   l.y + (l.height - textHeight) \div 2,
                   node.label, 16,
                   IF LineCount(node.label) > 1 THEN "left" ELSE "center",
                   "#1e1e1e")

----------------------------------------------------------------------------
(* converter/index.ts: convertToExcalidraw *)

Truthy(str) == str # Null /\ str # ""

\* elements.push(el) after the constructor consumed an index, a seed and
\* ids identities
Push(st, el, ids) ==
    [st EXCEPT !.elements = Append(@, el), !.gen = Advance(@, ids)]

\* PushText recording the identity that createBaseElement drew, which
\* createText replaces
PushText_BaseIdentity(st, el) ==
    [Push(st, el, 2) EXCEPT
        !.textInfos = Append(@, [element |-> el, id |-> IdentityOf(st.gen.id + 1),
                                 text |-> el.text])]

PushText(st, el) ==
    [Push(st, el, 2) EXCEPT
        !.textInfos = Append(@, [element |-> el, id |-> el.id, text |-> el.text])]

\* the loop over diagram.subgraphs
RECURSIVE SubgraphElements(_, _, _)
SubgraphElements(st, subgraphs, layoutSubgraphs) ==
    IF subgraphs = <<>> THEN st
    ELSE LET sg == Head(subgraphs)
             found == {i \in 1..Len(layoutSubgraphs) : layoutSubgraphs[i].id = sg.id}
         IN  IF found = {}
             THEN SubgraphElements(st, Tail(subgraphs), layoutSubgraphs)
             ELSE LET layoutSg == layoutSubgraphs[SetMin(found)]
                      st1 == Push(st, createSubgraphRect(st.gen, layoutSg, sg), 1)
                      st2 == PushText(st1,
                                 createText(st1.gen, layoutSg.x + Px(10), layoutSg.y + Px(5),
                                            layoutSg.label, 14, "left", "#495057"))
                  IN  SubgraphElements(st2, Tail(subgraphs), layoutSubgraphs)

\* the separator line of an ER entity that has attributes
SeparatorLine(gen, layoutNode, node) ==
    LET firstLineHeight == 16 * 125
        separatorY == layoutNode.y
                      + (layoutNode.height - LineCount(node.label) * firstLineHeight) \div 2
                      + firstLineHeight + Px(2)
    IN  createLine(gen, layoutNode.x + Px(8), separatorY,
                   layoutNode.x + layoutNode.width - Px(8), separatorY,
                   "#868e96", "solid")

\* the loop over diagram.nodes
RECURSIVE NodeElements(_, _, _, _)
NodeElements(st, nodes, layoutNodes, type) ==
    IF nodes = <<>> THEN st
    ELSE LET node == Head(nodes)
         IN  IF ~MapHas(layoutNodes, node.id)
             THEN NodeElements(st, Tail(nodes), layoutNodes, type)
             ELSE LET layoutNode == layoutNodes[node.id]
                      shape == nodeShapeToElement(st.gen, layoutNode, node)
                      st1 == Push(st, shape, 1)
                      st2 == PushText(st1, NodeLabelText(st1.gen, layoutNode, node))
                      st3 == [st2 EXCEPT !.nodeElementIds = MapSet(@, node.id, shape.id)]
                      st4 == IF type = "er" /\ Includes(node.label, "\n")
                             THEN Push(st3, SeparatorLine(st3.gen, layoutNode, node), 1)
                             ELSE st3
                  IN  NodeElements(st4, Tail(nodes), layoutNodes, type)

\* maxMessageY: the largest y of any point of any laid-out edge, at least 0
MaxMessageY(layoutEdges) ==
    SetMax({0} \cup UNION {{layoutEdges[i].points[j].y :
                               j \in 1..Len(layoutEdges[i].points)} :
                            i \in 1..Len(layoutEdges)})

\* the lifeline loop of a sequence diagram
RECURSIVE LifelineElements(_, _, _, _)
LifelineElements(st, nodes, layoutNodes, lifelineEndY) ==
    IF nodes = <<>> THEN st
    ELSE LET node == Head(nodes)
         IN  IF ~MapHas(layoutNodes, node.id)
             THEN LifelineElements(st, Tail(nodes), layoutNodes, lifelineEndY)
             ELSE LET layoutNode == layoutNodes[node.id]
                      centerX == layoutNode.x + layoutNode.width \div 2
                      startY == layoutNode.y + layoutNode.height
                  IN  LifelineElements(
                          Push(st, createLine(st.gen, centerX, startY, centerX,
                                              lifelineEndY, "#868e96", "dashed"), 1),
                          Tail(nodes), layoutNodes, lifelineEndY)

\* parsedEdgeMap.get(`${source}->${target}`): the last parsed edge with
\* these endpoints
ParsedEdgeLineStyle(edges, lEdge) ==
    LET same == {i \in 1..Len(edges) :
                    edges[i].source \o "->" \o edges[i].target
                        = lEdge.source \o "->" \o lEdge.target}
        parsed == IF same = {} THEN Null ELSE edges[SetMax(same)].lineStyle
    IN  IF parsed # Null THEN parsed
        ELSE IF lEdge.lineStyle # Null THEN lEdge.lineStyle
        ELSE "solid"

\* bindings.startBinding / bindings.endBinding of one laid-out edge
BindingTo(nodeElementIds, nodeId) ==
    IF MapHas(nodeElementIds, nodeId) THEN nodeElementIds[nodeId] ELSE Null

EdgeLabelText(gen, lEdge) ==
    LET p0 == lEdge.points[1]
        p1 == lEdge.points[2]
    IN  createText(gen,
                   (p0.x + p1.x) \div 2 - (Len(lEdge.label) * 12 * 55) \div 2,
                   (p0.y + p1.y) \div 2 - Px(10),
                   lEdge.label, 12, "center", "#1e1e1e")

\* the loop over layout.edges
RECURSIVE ArrowElements(_, _, _)
ArrowElements(st, layoutEdges, edges) ==
    IF layoutEdges = <<>> THEN st
    ELSE LET lEdge == Head(layoutEdges)
             arrow == createArrow(st.gen, lEdge,
                                  ParsedEdgeLineStyle(edges, lEdge),
                                  BindingTo(st.nodeElementIds, lEdge.source),
                                  BindingTo(st.nodeElementIds, lEdge.target))
             st1 == [Push(st, arrow, 1) EXCEPT !.arrowElements = Append(@, arrow)]
             st2 == IF Truthy(lEdge.label) /\ Len(lEdge.points) >= 2
                    THEN PushText(st1, EdgeLabelText(st1.gen, lEdge))
                    ELSE st1
         IN  ArrowElements(st2, Tail(layoutEdges), edges)

\* the closing pass looking at the start binding only
BoundArrows_StartOnly(element, arrowElements) ==
    LET bound == {i \in 1..Len(arrowElements) :
                     arrowElements[i].startBinding = element.id}
        Ordered[n \in 0..Len(arrowElements)] ==
            IF n = 0 THEN <<>>
            ELSE IF n \in bound
                 THEN Append(Ordered[n - 1], [id |-> arrowElements[n].id, type |-> "arrow"])
                 ELSE Ordered[n - 1]
    IN  Ordered[Len(arrowElements)]

\* the closing pass over the shapes
BoundArrows(element, arrowElements) ==
    LET bound == {i \in 1..Len(arrowElements) :
                     \/ arrowElements[i].startBinding = element.id
                     \/ arrowElements[i].endBinding = element.id}
        Ordered[n \in 0..Len(arrowElements)] ==
            IF n = 0 THEN <<>>
            ELSE IF n \in bound
                 THEN Append(Ordered[n - 1], [id |-> arrowElements[n].id, type |-> "arrow"])
                 ELSE Ordered[n - 1]
    IN  Ordered[Len(arrowElements)]

UpdateBoundElements(elems, arrowElements) ==
    [i \in 1..Len(elems) |->
        IF elems[i].type \in {"rectangle", "ellipse"}
           /\ BoundArrows(elems[i], arrowElements) # <<>>
        THEN [elems[i] EXCEPT !.boundElements = BoundArrows(elems[i], arrowElements)]
        ELSE elems[i]]

\* convertToExcalidraw with the arrow loop run before the node loop
convertToExcalidraw_ArrowsFirst(d, l, seed, id) ==
    LET st0 == [gen |-> [index |-> 0, seed |-> seed, id |-> id],
                elements |-> <<>>, textInfos |-> <<>>,
                nodeElementIds |-> EmptyMap, arrowElements |-> <<>>]
        st1 == SubgraphElements(st0, d.subgraphs, l.subgraphs)
        st2 == ArrowElements(st1, l.edges, d.edges)
        st3 == NodeElements(st2, d.nodes, l.nodes, d.type)
        st4 == IF d.type = "sequence"
               THEN LifelineElements(st3, d.nodes, l.nodes, MaxMessageY(l.edges) + Px(80))
               ELSE st3
    IN  [elements |-> UpdateBoundElements(st4.elements, st4.arrowElements),
         textInfos |-> st4.textInfos,
         seedCounter |-> st4.gen.seed,
         idCounter |-> st4.gen.id]

\* convertToExcalidraw from the point where the layout is known; seed and id
\* are the process-wide generators on entry.  The result carries them back.
convertToExcalidraw(d, l, seed, id) ==
    LET st0 == [gen |-> [index |-> 0, seed |-> seed, id |-> id],
                elements |-> <<>>, textInfos |-> <<>>,
                nodeElementIds |-> EmptyMap, arrowElements |-> <<>>]
        st1 == SubgraphElements(st0, d.subgraphs, l.subgraphs)
        st2 == NodeElements(st1, d.nodes, l.nodes, d.type)
        st3 == IF d.type = "sequence"
               THEN LifelineElements(st2, d.nodes, l.nodes, MaxMessageY(l.edges) + Px(80))
               ELSE st2
        st4 == ArrowElements(st3, l.edges, d.edges)
    IN  [elements |-> UpdateBoundElements(st4.elements, st4.arrowElements),
         textInfos |-> st4.textInfos,
         seedCounter |-> st4.gen.seed,
         idCounter |-> st4.gen.id]

----------------------------------------------------------------------------
(* index.ts: the convert tool call *)

NoRequest == [text |-> "", body |-> <<>>]

NoDiagram ==
    [type |-> Null, direction |-> Null, nodes |-> <<>>, edges |-> <<>>,
     subgraphs |-> <<>>, styles |-> NoStyles]

NoLayout == [nodes |-> EmptyMap, edges |-> <<>>, subgraphs |-> <<>>]

NoResponse == [kind |-> Null, isError |-> FALSE]

\* the four results of the handler
RequiredError == [kind |-> "Error: mermaid source is required", isError |-> TRUE]
DetectError == [kind |-> "Error: Could not detect diagram type", isError |-> TRUE]
ConvertError == [kind |-> "Error converting diagram", isError |-> TRUE]
WrittenResult == [kind |-> "Successfully wrote Excalidraw file", isError |-> FALSE]
ContentResult == [kind |-> "obsidianContent", isError |-> FALSE]

\* the handler's locals before a call has set them
FreshCall ==
    /\ diagramType' = Null
    /\ diagram' = NoDiagram
    /\ layout' = NoLayout
    /\ elements' = <<>>
    /\ textInfos' = <<>>
    /\ steps' = <<>>

StripIdle == UNCHANGED <<stripIn, stripOut, stripN>>

\* calculateDepths is not being stepped through
DepthsIdle == UNCHANGED <<rankQueue, rankVisited, rankDepths>>

\* A convert call arrives; `if (!mermaidSource)` answers it at once.
Receive(requests, maxCalls) ==
    /\ pc \in {"idle", "done"}
    /\ calls < maxCalls
    /\ \E r \in requests :
          /\ request' = r
          /\ IF r.text = "" /\ r.body = <<>>
             THEN response' = RequiredError /\ pc' = "done"
             ELSE response' = NoResponse /\ pc' = "detect"
    /\ calls' = calls + 1
    /\ FreshCall
    /\ UNCHANGED <<seedCounter, idCounter, files>>
    /\ StripIdle
    /\ DepthsIdle

\* const diagramType = detectDiagramType(mermaidSource), inside the try.
\* The body lines of the model's requests start with no header keyword and
\* no directive marker, so the text decides the detection.
Detect ==
    /\ pc = "detect"
    /\ steps' = Append(steps, "detect")
    /\ LET detected == detectDiagramType(request.text)
       IN  IF detected = RangeError
           THEN /\ diagramType' = Null
                /\ response' = ConvertError
                /\ pc' = "done"
           ELSE IF detected = Null
           THEN /\ diagramType' = Null
                /\ response' = DetectError
                /\ pc' = "done"
           ELSE /\ diagramType' = detected
                /\ response' = response
                /\ pc' = "parse"
    /\ UNCHANGED <<request, diagram, layout, elements, textInfos, seedCounter,
                   idCounter, files, calls>>
    /\ StripIdle
    /\ DepthsIdle

\* const parsed = parseDiagram(mermaidSource, diagramType)
Parse ==
    /\ pc = "parse"
    /\ steps' = Append(steps, "parse")
    /\ diagram' = parseDiagram(request.text, request.body, diagramType)
    /\ pc' = "layout"
    /\ UNCHANGED <<request, diagramType, layout, elements, textInfos, seedCounter,
                   idCounter, response, files, calls>>
    /\ StripIdle
    /\ DepthsIdle

\* convertToExcalidraw, first statement: const layout = layoutDiagram(diagram)
LayoutStep ==
    /\ pc = "layout"
    /\ steps' = Append(steps, "layout")
    /\ layout' = layoutDiagram(diagram)
    /\ pc' = "synthesize"
    /\ UNCHANGED <<request, diagramType, diagram, elements, textInfos, seedCounter,
                   idCounter, response, files, calls>>
    /\ StripIdle
    /\ DepthsIdle

\* convertToExcalidraw throwing on a diagram without nodes, which the catch
\* of the handler turns into the conversion error
Synthesize_ThrowsOnEmpty ==
    /\ pc = "synthesize"
    /\ steps' = Append(steps, "synthesize")
    /\ IF diagram.nodes = <<>>
       THEN /\ response' = ConvertError
            /\ pc' = "done"
            /\ UNCHANGED <<elements, textInfos, seedCounter, idCounter>>
       ELSE /\ LET result == convertToExcalidraw(diagram, layout, seedCounter, idCounter)
               IN  /\ elements' = result.elements
                   /\ textInfos' = result.textInfos
                   /\ seedCounter' = result.seedCounter
                   /\ idCounter' = result.idCounter
            /\ response' = response
            /\ pc' = "respond"
    /\ UNCHANGED <<request, diagramType, diagram, layout, files, calls>>
    /\ StripIdle
    /\ DepthsIdle

\* convertToExcalidraw, the rest
Synthesize ==
    /\ pc = "synthesize"
    /\ steps' = Append(steps, "synthesize")
    /\ LET result == convertToExcalidraw(diagram, layout, seedCounter, idCounter)
       IN  /\ elements' = result.elements
           /\ textInfos' = result.textInfos
           /\ seedCounter' = result.seedCounter
           /\ idCounter' = result.idCounter
    /\ pc' = "respond"
    /\ UNCHANGED <<request, diagramType, diagram, layout, response, files, calls>>
    /\ StripIdle
    /\ DepthsIdle

OutputPaths == {"out.excalidraw.md"}

\* `if (outputPath)` and the two returns of a finished conversion.  The
\* written content is that of formatObsidianFile: the scene, the text
\* descriptors and the mermaid source (diagram.rawMermaid).  The
\* outputPath argument is read here for the first time, so it is drawn here;
\* writeFile may reject, which the catch turns into the conversion error.
Respond ==
    /\ pc = "respond"
    /\ \E outputPath \in OutputPaths \cup {Null} : \E written \in BOOLEAN :
          IF outputPath = Null
          THEN /\ written
               /\ steps' = steps
               /\ files' = files
               /\ response' = ContentResult
          ELSE /\ steps' = Append(steps, "write")
               /\ IF written
                  THEN /\ files' = Append(files, [path |-> outputPath,
                                                  mermaid |-> request,
                                                  elements |-> elements,
                                                  textInfos |-> textInfos])
                       /\ response' = WrittenResult
                  ELSE /\ files' = files
                       /\ response' = ConvertError
    /\ pc' = "done"
    /\ UNCHANGED <<request, diagramType, diagram, layout, elements, textInfos,
                   seedCounter, idCounter, calls>>
    /\ StripIdle
    /\ DepthsIdle

----------------------------------------------------------------------------
(* The tool calls of the model *)

\* all sequences over S of length at most n
SeqsUpTo(S, n) == UNION {[1..k -> S] : k \in 0..n}

MaxCalls == 1
MaxLines == 3

Directive == "%%{excali: styles: {A: cache, B: nope}}%%\n"

\* flowchart body lines
EdgeLine(sourceId, sourceShape, edgeLabel, targetId, targetShape) ==
    [k |-> "edge", sourceId |-> sourceId, sourceShape |-> sourceShape,
     arrow |-> "-->", edgeLabel |-> edgeLabel, targetId |-> targetId,
     targetShape |-> targetShape]

TextLine(text) == [k |-> "text", text |-> text]

FlowBodyLines ==
    {EdgeLine("A", "", Null, "B", ""),                \* A-->B
     EdgeLine("B", "", Null, "A", ""),                \* B-->A
     EdgeLine("B", "", Null, "B", ""),                \* B-->B
     EdgeLine("A", " ", Null, "B", ""),               \* A --> B
     EdgeLine("A", "[React App]", "yes", "B", "[(Redis)]"),
     TextLine("A[(React App)]"),
     TextLine("B"),
     [k |-> "subgraph", id |-> "S", label |-> Null],
     [k |-> "end"]}

FlowTexts == {"flowchart TD\n", Directive \o "graph LR\n"}

\* sequence body lines
ParticipantLine(ptype, id, alias) ==
    [k |-> "participant", ptype |-> ptype, id |-> id, alias |-> alias]

MessageLine(from, arrow, to, label) ==
    [k |-> "message", from |-> from, arrow |-> arrow, to |-> to, label |-> label]

SeqBodyLines ==
    {ParticipantLine("participant", "A", Null),
     ParticipantLine("actor", "B", Null),
     ParticipantLine("actor", "A", "Auth API"),
     MessageLine("A", "->>", "B", "hi"),
     MessageLine("B", "-->>", "A", "ok"),
     MessageLine("A", "->>", "A", "again"),
     MessageLine("B", "->>", "A", ""),
     TextLine("Note over A: x")}

SeqTexts == {"sequenceDiagram\n", Directive \o "sequenceDiagram\n"}

\* ER body lines
RelLine(entity1, card1, card2, entity2, label, spaced) ==
    [k |-> "rel", entity1 |-> entity1, card1 |-> card1, card2 |-> card2,
     entity2 |-> entity2, label |-> label, spaced |-> spaced]

ERBodyLines ==
    {[k |-> "entityStart", name |-> "A"],
     [k |-> "attr", type |-> "int", name |-> "id", key |-> "PK"],
     [k |-> "close"],
     RelLine("A", "||", "o{", "B", "places", TRUE),   \* A ||--o{ B : places
     RelLine("A", "}|", "||", "B", Null, FALSE),      \* A }|--|| B
     RelLine("B", "||", "|{", "A", Null, TRUE)}       \* B ||--|{ A

ERTexts == {"erDiagram\n", Directive \o "erDiagram\n"}

\* texts that carry no body
BareTexts ==
    {"", "hello", "pie title Pets\n", Directive \o "hello", "%%{excali",
     "%%{excali: styles: {A: db}\nflowchart TD\n"}

RequestsOf(texts, lines, n) ==
    {[text |-> t, body |-> b] : t \in texts, b \in SeqsUpTo(lines, n)}

Requests ==
    RequestsOf(FlowTexts, FlowBodyLines, MaxLines)
    \cup RequestsOf(SeqTexts, SeqBodyLines, MaxLines)
    \cup RequestsOf(ERTexts, ERBodyLines, MaxLines)
    \cup RequestsOf(BareTexts, {}, 0)

----------------------------------------------------------------------------
(* The process *)

InitCall ==
    /\ pc = "idle"
    /\ request = NoRequest
    /\ diagramType = Null
    /\ diagram = NoDiagram
    /\ layout = NoLayout
    /\ elements = <<>>
    /\ textInfos = <<>>
    /\ seedCounter = 1000
    /\ idCounter = 0
    /\ response = NoResponse
    /\ steps = <<>>
    /\ files = <<>>
    /\ calls = 0

\* calculateDepths has not been entered
InitDepthsIdle ==
    /\ rankQueue = <<>>
    /\ rankVisited = {}
    /\ rankDepths = EmptyMap

Init ==
    /\ InitCall
    /\ stripIn = ""
    /\ stripOut = ""
    /\ stripN = 0
    /\ InitDepthsIdle

Next ==
    \/ Receive(Requests, MaxCalls)
    \/ Detect
    \/ Parse
    \/ LayoutStep
    \/ Synthesize
    \/ Respond

Spec == Init /\ [][Next]_vars

----------------------------------------------------------------------------
(* Flowcharts over four ids, for the rank computation *)

MaxRankLines == 4

RankIds == <<"R", "A", "B", "C">>

\* u-->v for every u that comes before v in RankIds: every body is acyclic
RankBodyLines ==
    {EdgeLine(RankIds[p[1]], "", Null, RankIds[p[2]], "") :
        p \in {q \in (1..Len(RankIds)) \X (1..Len(RankIds)) : q[1] < q[2]}}

RankRequests == RequestsOf({"flowchart TD\n"}, RankBodyLines, MaxRankLines)

NextRank ==
    \/ Receive(RankRequests, MaxCalls)
    \/ Detect
    \/ Parse
    \/ LayoutStep
    \/ Synthesize
    \/ Respond

SpecRank == Init /\ [][NextRank]_vars

----------------------------------------------------------------------------
(* Repeated stripping of the directive block *)

MaxChunks == 4
MaxStrips == 2

StripChunks == {"%%{exc", "ali:a", "}%%", "%%{excali:b}%%", " \n", "x"}

RECURSIVE Concat(_)
Concat(chunks) == IF chunks = <<>> THEN "" ELSE Head(chunks) \o Concat(Tail(chunks))

StripTexts == {Concat(chunks) : chunks \in SeqsUpTo(StripChunks, MaxChunks)}

InitStrip ==
    /\ InitCall
    /\ stripIn \in StripTexts
    /\ stripOut = stripIn
    /\ stripN = 0
    /\ InitDepthsIdle

\* one more call of stripExcaliDirective, on the previous result
Strip ==
    /\ stripN < MaxStrips
    /\ stripOut' = stripExcaliDirective(stripOut)
    /\ stripN' = stripN + 1
    /\ UNCHANGED <<pc, request, diagramType, diagram, layout, elements, textInfos,
                   seedCounter, idCounter, response, steps, files, calls, stripIn>>
    /\ DepthsIdle

NextStrip == Strip

SpecStrip == InitStrip /\ [][NextStrip]_vars

----------------------------------------------------------------------------
(* Directive blocks over a few pairs, for the directive extractor *)

MaxPairs == 2

StylePair(nodeId, styleType) == [nodeId |-> nodeId, styleType |-> styleType]

\* "nope" is no member of VALID_STYLES; __proto__ is a \w+ key like any other
DirectivePairs ==
    {StylePair(id, st) : id \in {"A", "__proto__"}, st \in {"ui", "db", "nope"}}

RECURSIVE JoinPairs(_)
JoinPairs(prs) ==
    IF prs = <<>> THEN ""
    ELSE Head(prs).nodeId \o ": " \o Head(prs).styleType
         \o (IF Len(prs) > 1 THEN ", " ELSE "") \o JoinPairs(Tail(prs))

\* the two documented forms of the block
DirectiveOf(prs, themed) ==
    "%%{excali: " \o (IF themed THEN "theme: architecture, " ELSE "")
    \o "styles: {" \o JoinPairs(prs) \o "}}%%\n"

DirectiveTexts ==
    {DirectiveOf(prs, themed) \o "flowchart TD\n" :
        prs \in SeqsUpTo(DirectivePairs, MaxPairs), themed \in BOOLEAN}
    \cup {"flowchart TD\n", "%%{excali: theme: architecture}%%\nflowchart TD\n"}

\* constructor is an id like any other for /^[A-Za-z_][A-Za-z0-9_]*/
DirectiveBodyLines == {TextLine("A[(Users)]"), TextLine("constructor[(Users DB)]")}

DirectiveRequests == RequestsOf(DirectiveTexts, DirectiveBodyLines, 1)

NextDirective ==
    \/ Receive(DirectiveRequests, MaxCalls)
    \/ Detect
    \/ Parse
    \/ LayoutStep
    \/ Synthesize
    \/ Respond

SpecDirective == Init /\ [][NextDirective]_vars

----------------------------------------------------------------------------
(* Flowcharts of node definitions, for the shape patterns *)

MaxShapeLines == 2

\* the delimiter pairs of the Mermaid node syntax and the shape each stands for
ShapeDelimiters ==
    {[open |-> "[(", close |-> ")]", shape |-> "cylinder"],
     [open |-> "([", close |-> "])", shape |-> "stadium"],
     [open |-> "{{", close |-> "}}", shape |-> "hexagon"],
     [open |-> "((", close |-> "))", shape |-> "ellipse"],
     [open |-> "{", close |-> "}", shape |-> "diamond"],
     [open |-> "[", close |-> "]", shape |-> "rectangle"],
     [open |-> "(", close |-> ")", shape |-> "ellipse"]}

ShapeIds == {"A", "B"}

ShapeLabels == {"x", "use {x}", "call (y)"}

\* a standalone node definition: id, opening delimiter, label, closing delimiter
ShapeLine(id, delimiters, label) ==
    TextLine(id \o delimiters.open \o label \o delimiters.close)

ShapeBodyLines ==
    {ShapeLine(id, d, label) : id \in ShapeIds, d \in ShapeDelimiters, label \in ShapeLabels}

ShapeRequests == RequestsOf({"flowchart TD\n"}, ShapeBodyLines, MaxShapeLines)

NextShapes ==
    \/ Receive(ShapeRequests, MaxCalls)
    \/ Detect
    \/ Parse
    \/ LayoutStep
    \/ Synthesize
    \/ Respond

SpecShapes == Init /\ [][NextShapes]_vars

----------------------------------------------------------------------------
(* calculateDepths, turn by turn *)

MaxDepthEdges == 3

DepthIds == {"A", "B", "C"}

\* the node lists of the graphs; an id of DepthIds outside the list is an
\* unknown id for the edges that name it
DepthNodeLists == {<<"A", "B", "C">>, <<"B", "A">>, <<"C">>}

DepthNode(id) == [id |-> id, label |-> id, shape |-> "rectangle", styleType |-> Null]

DepthEdge(source, target) ==
    [source |-> source, target |-> target, label |-> Null, lineStyle |-> Null]

\* every edge list over DepthIds: cycles, self-loops, repeated edges and
\* edges from or to unknown ids are among them
DepthDiagrams ==
    {[NoDiagram EXCEPT
        !.type = "flowchart", !.direction = "TD",
        !.nodes = [i \in 1..Len(ns) |-> DepthNode(ns[i])],
        !.edges = es] :
        ns \in DepthNodeLists,
        es \in SeqsUpTo({DepthEdge(a, b) : a \in DepthIds, b \in DepthIds}, MaxDepthEdges)}

\* layoutFlowchart is about to call calculateDepths on a parsed flowchart
InitDepths ==
    /\ pc = "depths"
    /\ diagram \in DepthDiagrams
    /\ diagramType = "flowchart"
    /\ request = NoRequest
    /\ layout = NoLayout
    /\ elements = <<>>
    /\ textInfos = <<>>
    /\ seedCounter = 1000
    /\ idCounter = 0
    /\ response = NoResponse
    /\ steps = <<"detect", "parse">>
    /\ files = <<>>
    /\ calls = 1
    /\ stripIn = ""
    /\ stripOut = ""
    /\ stripN = 0
    /\ InitDepthsIdle

DepthsFrame ==
    /\ UNCHANGED <<request, diagramType, diagram, layout, elements, textInfos,
                   seedCounter, idCounter, response, steps, files, calls>>
    /\ StripIdle

\* the statements of calculateDepths before the while loop
DepthsStart ==
    /\ pc = "depths"
    /\ rankQueue' = RootEntries(diagram.nodes,
                                buildAdjacency(diagram.nodes, diagram.edges))
    /\ rankVisited' = {}
    /\ rankDepths' = EmptyMap
    /\ pc' = "depthsLoop"
    /\ DepthsFrame

\* while (queue.length > 0): one turn
DepthsStep ==
    /\ pc = "depthsLoop"
    /\ rankQueue # <<>>
    /\ LET turn == DepthsTurn(rankQueue, rankVisited, rankDepths,
                              buildAdjacency(diagram.nodes, diagram.edges))
       IN  /\ rankQueue' = turn.queue
           /\ rankVisited' = turn.visited
           /\ rankDepths' = turn.depths
    /\ pc' = pc
    /\ DepthsFrame

\* the queue is empty: the closing loop over the nodes, and the return
DepthsFinish ==
    /\ pc = "depthsLoop"
    /\ rankQueue = <<>>
    /\ rankDepths' = DisconnectedDepths(diagram.nodes, rankDepths)
    /\ pc' = "ranked"
    /\ UNCHANGED <<rankQueue, rankVisited>>
    /\ DepthsFrame

NextDepths == DepthsStart \/ DepthsStep \/ DepthsFinish

\* calculateDepths is synchronous code: once entered it keeps running
SpecDepths == InitDepths /\ [][NextDepths]_vars /\ WF_vars(NextDepths)

----------------------------------------------------------------------------
(* Entity-relationship diagrams of several entities, for the grid layout *)

MaxEntities == 5

EntityNames == <<"E1", "E2", "E3", "E4", "E5", "E6">>

\* NAME { } with three attributes (a label of four lines) or with none
EntityBlock(name, tall) ==
    <<[k |-> "entityStart", name |-> name]>>
    \o (IF tall
        THEN <<[k |-> "attr", type |-> "int", name |-> "id", key |-> "PK"],
               [k |-> "attr", type |-> "string", name |-> "title", key |-> Null],
               [k |-> "attr", type |-> "int", name |-> "owner", key |-> "FK"]>>
        ELSE <<>>)
    \o <<[k |-> "close"]>>

\* the blocks of the first Len(talls) names, one after the other
RECURSIVE EntityBlocks(_, _)
EntityBlocks(talls, i) ==
    IF i > Len(talls) THEN <<>>
    ELSE EntityBlock(EntityNames[i], talls[i]) \o EntityBlocks(talls, i + 1)

ERGridRequests ==
    {[text |-> "erDiagram\n", body |-> EntityBlocks(talls, 1)] :
        talls \in SeqsUpTo(BOOLEAN, MaxEntities)}

NextERGrid ==
    \/ Receive(ERGridRequests, MaxCalls)
    \/ Detect
    \/ Parse
    \/ LayoutStep
    \/ Synthesize
    \/ Respond

SpecERGrid == Init /\ [][NextERGrid]_vars

----------------------------------------------------------------------------
(* Properties *)

\* the positions of the handler at which the named result exists
Parsed == pc \in {"layout", "synthesize", "respond", "done"} /\ diagramType # Null
LaidOut == pc \in {"synthesize", "respond", "done"} /\ diagramType # Null
Synthesized == pc \in {"respond", "done"} /\ diagramType # Null

NodeIds(d) == {d.nodes[i].id : i \in 1..Len(d.nodes)}
EdgePairs(d) == {<<d.edges[i].source, d.edges[i].target>> : i \in 1..Len(d.edges)}

\* a path of at most n edges leads from a to b
RECURSIVE PathWithin(_, _, _, _)
PathWithin(d, a, b, n) ==
    /\ n > 0
    /\ \/ <<a, b>> \in EdgePairs(d)
       \/ \E c \in NodeIds(d) : <<a, c>> \in EdgePairs(d) /\ PathWithin(d, c, b, n - 1)

Acyclic(d) == \A a \in NodeIds(d) : ~PathWithin(d, a, a, Len(d.nodes))

\* the number of edges of the longest path that ends in id; a node that no
\* edge enters is a root
RECURSIVE LongestPath(_, _)
LongestPath(d, id) ==
    LET preds == {e[1] : e \in {f \in EdgePairs(d) : f[2] = id}}
    IN  IF preds = {} THEN 0
        ELSE 1 + SetMax({LongestPath(d, p) : p \in preds})

\* the row of a top-down flowchart in which the layout put the node
LayoutRow(id) == layout.nodes[id].y \div Px(DEFAULT_NODE_HEIGHT + VERTICAL_GAP)

\* C1: in an acyclic flowchart the layout row of every node is the length of
\* the longest path from a root to it.
C1_RankIsLongestPath ==
    (LaidOut /\ diagramType = "flowchart" /\ diagram.direction = "TD" /\ Acyclic(diagram))
        => \A id \in NodeIds(diagram) : LayoutRow(id) = LongestPath(diagram, id)

\* the ids of a sequence body in the order of their first appearance, in a
\* participant/actor declaration or in a message (sender before receiver)
RECURSIVE Appearances(_)
Appearances(body) ==
    IF body = <<>> THEN <<>>
    ELSE (IF Head(body).k = "participant" THEN <<Head(body).id>>
          ELSE IF Head(body).k = "message" THEN <<Head(body).from, Head(body).to>>
          ELSE <<>>) \o Appearances(Tail(body))

FirstAppearance(ids, id) == SetMin({i \in 1..Len(ids) : ids[i] = id})

\* C2: the participant columns of a sequence diagram stand from left to right
\* in the order in which the ids first appear in the source.
C2_ColumnOrderIsFirstAppearance ==
    (LaidOut /\ diagramType = "sequence")
        => LET ids == Appearances(request.body)
           IN  /\ DOMAIN layout.nodes = {ids[i] : i \in 1..Len(ids)}
               /\ \A a, b \in DOMAIN layout.nodes :
                     FirstAppearance(ids, a) < FirstAppearance(ids, b)
                         <=> layout.nodes[a].x < layout.nodes[b].x

ElementsOfType(types) == {i \in 1..Len(elements) : elements[i].type \in types}

ResolvedEdges(d) ==
    {i \in 1..Len(d.edges) :
        d.edges[i].source \in NodeIds(d) /\ d.edges[i].target \in NodeIds(d)}

\* C3: the scene holds as many arrows as the diagram has edges whose source
\* and target are both nodes of the diagram.
C3_ArrowPerResolvedEdge ==
    Synthesized
        => Cardinality(ElementsOfType({"arrow"})) = Cardinality(ResolvedEdges(diagram))

\* C4: the scene holds as many rectangles and ellipses as the diagram has
\* nodes.
C4_ShapePerNode ==
    Synthesized
        => Cardinality(ElementsOfType({"rectangle", "ellipse"})) = Len(diagram.nodes)

\* C4, amended: the scene holds as many rectangles and ellipses as the diagram
\* has nodes and subgraphs together.
C4_ShapePerNodeAndSubgraph ==
    Synthesized
        => Cardinality(ElementsOfType({"rectangle", "ellipse"}))
              = Len(diagram.nodes) + Len(diagram.subgraphs)

C4_Witness ==
    /\ Synthesized
    /\ Len(diagram.subgraphs) > 0
    /\ Len(diagram.nodes) > 1
    /\ Cardinality(ElementsOfType({"ellipse"})) > 0

\* C5: a node whose id is a key of the directive's style map has the mapped
\* style, whatever its shape and label.
C5_OverrideWins ==
    Parsed
        => LET styles == parseExcaliDirective(request.text)
           IN  \A i \in 1..Len(diagram.nodes) :
                  diagram.nodes[i].id \in DOMAIN styles
                      => diagram.nodes[i].styleType = styles[diagram.nodes[i].id]

\* a mapped node whose shape implies db and whose label implies ui
C5_Witness ==
    /\ Parsed
    /\ diagramType = "flowchart"
    /\ \E i \in 1..Len(diagram.nodes) :
          /\ diagram.nodes[i].id \in DOMAIN parseExcaliDirective(request.text)
          /\ inferStyleFromShape(diagram.nodes[i].shape) = "db"
          /\ inferStyleFromLabel(diagram.nodes[i].label) = "ui"
          /\ diagram.nodes[i].styleType = "cache"

\* C6: stripping the directive block a second time changes nothing.
C6_StripIdempotent ==
    stripN = 2 => stripOut = stripExcaliDirective(stripIn)

Shapes == ElementsOfType({"rectangle", "ellipse"})
Arrows == ElementsOfType({"arrow"})

BindsTo(arrow, shape) ==
    arrow.startBinding = shape.id \/ arrow.endBinding = shape.id

Lists(shape, arrow) ==
    \E k \in 1..Len(shape.boundElements) : shape.boundElements[k].id = arrow.id

\* C7: an arrow is bound to a shape at its start or its end exactly when the
\* shape's boundElements list has an entry for the arrow.
C7_BindingSymmetry ==
    Synthesized
        => \A a \in Arrows : \A sh \in Shapes :
              BindsTo(elements[a], elements[sh]) <=> Lists(elements[sh], elements[a])

\* a scene with a self-loop arrow, two arrows between the same shapes and an
\* arrow without bindings
C7_Witness ==
    /\ Synthesized
    /\ \E a \in Arrows : \E sh \in Shapes :
          /\ elements[a].startBinding = elements[sh].id
          /\ elements[a].endBinding = elements[sh].id
          /\ Lists(elements[sh], elements[a])
    /\ \E a \in Arrows : elements[a].startBinding = Null /\ elements[a].endBinding = Null
    /\ \E sh \in Shapes : Len(elements[sh].boundElements) > 1

\* the characters of the model's tokens in the order of their code units
CodeUnitOrder == Digits \o UpperLetters \o "_" \o LowerLetters

CodeUnit(c) == CHOOSE i \in 1..Len(CodeUnitOrder) : Char(CodeUnitOrder, i) = c

\* a < b for two strings, as the comparison of JavaScript strings decides it
RECURSIVE StringLess(_, _)
StringLess(a, b) ==
    IF b = "" THEN FALSE
    ELSE IF a = "" THEN TRUE
    ELSE IF Head(a) # Head(b) THEN CodeUnit(Head(a)) < CodeUnit(Head(b))
    ELSE StringLess(Tail(a), Tail(b))

\* C8: the index token of every primitive is, as a string, greater than the
\* token of every primitive emitted before it.
C8_IndexIncreases ==
    Synthesized
        => \A i, j \in 1..Len(elements) :
              i < j => StringLess(elements[i].index, elements[j].index)

\* /^(flowchart|graph)\s/im, /^sequenceDiagram/im and /^erDiagram/im all fail
NoHeader(text) ==
    /\ ~FlowchartHeader(text)
    /\ ~HeaderAt(text, "sequenceDiagram")
    /\ ~HeaderAt(text, "erDiagram")

\* C9: a call whose text has none of the three headers ends with the
\* detection error, and only the detection ran: no parser, no layout, no
\* synthesis, no write.  (The empty text, which the handler answers before
\* the detection, is left aside.)
C9_UndetectedStopsPipeline ==
    (pc = "done" /\ request.text # "" /\ request.body = <<>> /\ NoHeader(request.text))
        => /\ response = DetectError
           /\ steps = <<"detect">>
           /\ files = <<>>

IsText(element) == element.type = "text"

\* C10: textInfos has one entry per text primitive, in the order of the
\* element list, with that primitive's id and text, and no entry stands for a
\* primitive that is not a text.
C10_TextInfosParallel ==
    Synthesized
        => LET texts == SelectSeq(elements, IsText)
           IN  /\ Len(textInfos) = Len(texts)
               /\ \A i \in 1..Len(textInfos) :
                     /\ i <= Len(texts)
                     /\ textInfos[i].id = texts[i].id
                     /\ textInfos[i].text = texts[i].text
                     /\ \A k \in 1..Len(elements) :
                           elements[k].id = textInfos[i].id => IsText(elements[k])

\* a scene with a subgraph label, node labels and an edge label, next to
\* shapes and arrows
C10_Witness ==
    /\ Synthesized
    /\ \E i \in 1..Len(textInfos) : textInfos[i].text = "S"
    /\ \E i \in 1..Len(textInfos) : textInfos[i].text = "yes"
    /\ \E i \in 1..Len(textInfos) : textInfos[i].text = "Redis"
    /\ Arrows # {}

----------------------------------------------------------------------------
\* C11: the style map returned by the directive extractor holds only values
\* of the style-category enumeration; a pair with an unknown category is
\* dropped while every pair of the same block with a known category is kept
\* (the last one written for a key decides its value); a text without a
\* directive block yields the empty map.
LastValidStyle(prs, id) ==
    LET hits == {i \in 1..Len(prs) :
                    prs[i].nodeId = id /\ prs[i].styleType \in VALID_STYLES}
    IN  IF hits = {} THEN Null
        ELSE prs[CHOOSE i \in hits : \A j \in hits : j <= i].styleType

C11_DirectiveStylesValid ==
    Parsed =>
        /\ \A id \in DOMAIN diagram.styles : diagram.styles[id] \in VALID_STYLES
        /\ \A prs \in SeqsUpTo(DirectivePairs, MaxPairs) : \A themed \in BOOLEAN :
              request.text = DirectiveOf(prs, themed) \o "flowchart TD\n" =>
                 \A i \in 1..Len(prs) :
                    prs[i].styleType \in VALID_STYLES =>
                       /\ prs[i].nodeId \in DOMAIN diagram.styles
                       /\ diagram.styles[prs[i].nodeId] = LastValidStyle(prs, prs[i].nodeId)
        /\ ~Includes(request.text, DirectiveOpen) => diagram.styles = NoStyles

----------------------------------------------------------------------------
\* C12: in the structured diagram of each of the three parsers no two entries
\* of the node list have the same id.
C12_NodeIdsUnique ==
    Parsed =>
        \A i, j \in 1..Len(diagram.nodes) :
            diagram.nodes[i].id = diagram.nodes[j].id => i = j

----------------------------------------------------------------------------
\* C13: after parsing a flowchart, the source id and the target id of every
\* parsed edge are ids of entries of the node list.
C13_EdgeEndpointsBound ==
    (Parsed /\ diagramType = "flowchart") =>
        \A i \in 1..Len(diagram.edges) :
            /\ diagram.edges[i].source \in NodeIds(diagram)
            /\ diagram.edges[i].target \in NodeIds(diagram)

----------------------------------------------------------------------------
\* C14: in a flowchart, a node whose id is given a shape definition (inline
\* on an edge endpoint, or on a line of its own) has, after parsing, the
\* label and the shape of the last such definition in the source, also when
\* an earlier line had already registered the id.
Shaped(text) == \E i \in 1..Len(text) : Char(text, i) \in {"[", "(", "{"}

\* the shape definitions a body line carries, in reading order
LineDefinitions(line) ==
    IF line.k = "edge"
    THEN (IF Shaped(line.sourceShape)
          THEN <<parseNodeDefinition(line.sourceId \o line.sourceShape)>> ELSE <<>>)
         \o (IF Shaped(line.targetShape)
             THEN <<parseNodeDefinition(line.targetId \o line.targetShape)>> ELSE <<>>)
    ELSE IF line.k = "text" /\ Shaped(line.text)
    THEN <<parseNodeDefinition(line.text)>>
    ELSE <<>>

RECURSIVE BodyDefinitions(_)
BodyDefinitions(body) ==
    IF body = <<>> THEN <<>>
    ELSE LineDefinitions(Head(body)) \o BodyDefinitions(Tail(body))

C14_LaterDefinitionUpdates ==
    (Parsed /\ diagramType = "flowchart") =>
        LET defs == BodyDefinitions(request.body)
        IN  \A i \in 1..Len(defs) :
                (\A j \in (i + 1)..Len(defs) : defs[j].id # defs[i].id) =>
                    \A n \in 1..Len(diagram.nodes) :
                        diagram.nodes[n].id = defs[i].id =>
                            /\ diagram.nodes[n].label = defs[i].label
                            /\ diagram.nodes[n].shape = defs[i].shape

----------------------------------------------------------------------------
\* C15: a flowchart node without an override entry gets the category of its
\* shape when the shape is cylinder, stadium or hexagon, whatever the label;
\* otherwise the category of the first keyword group of the table that
\* matches the label, case-insensitively; otherwise no category.
C15_StylePrecedence ==
    (Parsed /\ diagramType = "flowchart") =>
        \A i \in 1..Len(diagram.nodes) :
            LET node == diagram.nodes[i]
            IN  node.id \notin DOMAIN diagram.styles =>
                    node.styleType =
                        CASE node.shape = "cylinder" -> "db"
                          [] node.shape = "stadium" -> "cache"
                          [] node.shape = "hexagon" -> "orchestrator"
                          [] OTHER -> FirstPattern(ToLower(node.label), 1)

----------------------------------------------------------------------------
\* C16: the shape of a flowchart node is that of the delimiter pair that
\* surrounds its label, and its label is the full text between that pair,
\* also when the label itself contains another delimiter pair.  (Stated for
\* an id that one line of the body defines.)
C16_ShapeOfSurroundingDelimiters ==
    (Parsed /\ diagramType = "flowchart") =>
        \A i \in 1..Len(request.body) :
            \A id \in ShapeIds, d \in ShapeDelimiters, label \in ShapeLabels :
                (/\ request.body[i] = ShapeLine(id, d, label)
                 /\ \A j \in 1..Len(request.body) :
                       j # i => Head(request.body[j].text) # id)
                => \E n \in 1..Len(diagram.nodes) :
                      /\ diagram.nodes[n].id = id
                      /\ diagram.nodes[n].shape = d.shape
                      /\ diagram.nodes[n].label = label

----------------------------------------------------------------------------
\* C17: in the scene of a sequence diagram the i-th arrow is dashed if and
\* only if the i-th message of the source was written with a dashed arrow
\* token (one that contains "--"), whatever the styles of the other messages.
IsArrow(element) == element.type = "arrow"

IsMessage(line) == line.k = "message"

C17_LineStyleCarried ==
    (Synthesized /\ diagramType = "sequence") =>
        LET arrows == SelectSeq(elements, IsArrow)
            messages == SelectSeq(request.body, IsMessage)
        IN  /\ Len(arrows) = Len(messages)
            /\ \A i \in 1..Len(messages) :
                  (arrows[i].strokeStyle = "dashed") <=> Includes(messages[i].arrow, "--")

----------------------------------------------------------------------------
\* C18: an entity-relationship line "E1 c1--c2 E2" without a label yields an
\* edge whose label is the ratio string of that line's own two cardinality
\* tokens; with a label the edge's label is that label.  (Stated for bodies
\* that consist of such lines, written with blanks around the token, so that
\* the i-th edge belongs to the i-th line.)
CardinalityRatio(card) ==
    CASE card = "||" -> "1"
      [] card \in {"|o", "o|", "oo"} -> "0..1"
      [] card \in {"}|", "|{", "}{"} -> "n"
      [] card \in {"}o", "o{"} -> "0..n"

C18_RelationshipLabel ==
    (/\ Parsed
     /\ diagramType = "er"
     /\ \A i \in 1..Len(request.body) :
           request.body[i].k = "rel" /\ request.body[i].spaced)
    => /\ Len(diagram.edges) = Len(request.body)
       /\ \A i \in 1..Len(request.body) :
             LET line == request.body[i]
             IN  diagram.edges[i].label =
                    IF line.label # Null THEN line.label
                    ELSE CardinalityRatio(line.card1) \o ":" \o CardinalityRatio(line.card2)

----------------------------------------------------------------------------
\* C19: dialect detection comes to an end for every text and names one of
\* the three dialects or finds the text unrecognized: once the handler is
\* past the detection, either the dialect is set or the answer is the
\* 'could not detect' error; the detection never ends in a stack overflow.
C19_DetectionTerminates ==
    (steps # <<>> /\ pc # "detect") =>
        \/ diagramType \in {"flowchart", "sequence", "er"}
        \/ response = DetectError

----------------------------------------------------------------------------
\* C20: the rank computation of a flowchart comes to an end for every node
\* list and edge list (cycles, self-loops and edges from or to unknown ids
\* included); at its end every node has a rank, and a node that no path
\* from a node without incoming edges reaches has rank 0.
IsRoot(d, id) == \A e \in EdgePairs(d) : e[2] # id

ReachedFromRoot(d, id) ==
    \E r \in NodeIds(d) :
        IsRoot(d, r) /\ (r = id \/ PathWithin(d, r, id, Len(d.nodes)))

RanksComplete ==
    pc = "ranked" =>
        \A id \in NodeIds(diagram) :
            /\ id \in DOMAIN rankDepths
            /\ rankDepths[id] \in Nat
            /\ ~ReachedFromRoot(diagram, id) => rankDepths[id] = 0

C20_RankTerminates == <>(pc = "ranked") /\ []RanksComplete

\* a finished computation on a graph without a root that has a self-loop
\* and edges from and to unknown ids
C20_Witness ==
    /\ pc = "ranked"
    /\ NodeIds(diagram) # {}
    /\ \A id \in NodeIds(diagram) : ~IsRoot(diagram, id) /\ rankDepths[id] = 0
    /\ \E e \in EdgePairs(diagram) : e[1] = e[2]
    /\ \E e \in EdgePairs(diagram) : e[1] \notin NodeIds(diagram)
    /\ \E e \in EdgePairs(diagram) : e[2] \notin NodeIds(diagram)

----------------------------------------------------------------------------
\* C21: the two waypoints of every flowchart or ER edge whose endpoints both
\* resolve follow the shared routing rule: when the horizontal distance of
\* the box centers exceeds the vertical one the edge joins the facing left
\* and right sides, otherwise the facing top and bottom sides, with the
\* perpendicular coordinate at the box center plus the lateral offset (which
\* is 0 in a flowchart).  Stated for edges between two different nodes.
CenterX(box) == box.x + box.width \div 2

CenterY(box) == box.y + box.height \div 2

RoutedPoints(source, target, offset) ==
    LET dx == CenterX(target) - CenterX(source)
        dy == CenterY(target) - CenterY(source)
    IN  IF Abs(dx) > Abs(dy)
        THEN IF dx > 0
             THEN <<[x |-> source.x + source.width, y |-> CenterY(source) + offset],
                    [x |-> target.x, y |-> CenterY(target) + offset]>>
             ELSE <<[x |-> source.x, y |-> CenterY(source) + offset],
                    [x |-> target.x + target.width, y |-> CenterY(target) + offset]>>
        ELSE IF dy > 0
             THEN <<[x |-> CenterX(source) + offset, y |-> source.y + source.height],
                    [x |-> CenterX(target) + offset, y |-> target.y]>>
             ELSE <<[x |-> CenterX(source) + offset, y |-> source.y],
                    [x |-> CenterX(target) + offset, y |-> target.y + target.height]>>

C21_SharedRoutingRule ==
    (LaidOut /\ diagramType \in {"flowchart", "er"}) =>
        \A i \in 1..Len(layout.edges) :
            LET lEdge == layout.edges[i]
            IN  (/\ lEdge.source \in DOMAIN layout.nodes
                 /\ lEdge.target \in DOMAIN layout.nodes
                 /\ lEdge.source # lEdge.target)
                => lEdge.points =
                      RoutedPoints(layout.nodes[lEdge.source], layout.nodes[lEdge.target],
                                   IF diagramType = "er"
                                   THEN (((i - 1) % 3) - 1) * Px(15) ELSE 0)

----------------------------------------------------------------------------
\* C22: the ER grid holds the i-th entity (counting from 0, in node-list
\* order) in row floor(i / cols) and column i mod cols, where cols is the
\* least whole number not below 1.5 times the square root of the entity
\* count, and at most 4; the entities of a row share their y, a row starts
\* below the tallest entity of the row before it plus the vertical gap, and
\* no two entity rectangles overlap.
GridCols(n) ==
    LET enough == {c \in 0..(2 * n) : 4 * c * c >= 9 * n}
        least == CHOOSE c \in enough : \A b \in enough : c <= b
    IN  IF least > 4 THEN 4 ELSE least

\* the box of the i-th entity, counting from 0
GridBox(i) == layout.nodes[diagram.nodes[i + 1].id]

\* the row and the column in which a box stands, read off the coordinates
GridRow(i) ==
    Cardinality({GridBox(j).y : j \in 0..(Len(diagram.nodes) - 1)}
                \cap 0..(GridBox(i).y - 1))

GridColumn(i) ==
    Cardinality({j \in 0..(Len(diagram.nodes) - 1) :
                    GridBox(j).y = GridBox(i).y /\ GridBox(j).x < GridBox(i).x})

Overlap(a, b) ==
    /\ a.x < b.x + b.width
    /\ b.x < a.x + a.width
    /\ a.y < b.y + b.height
    /\ b.y < a.y + a.height

----------------------------------------------------------------------------
\* C23: the layout rectangle of a flowchart subgraph none of whose member ids
\* is a laid-out node has width 0 and height 0.
C23_EmptySubgraphZeroBox ==
    (LaidOut /\ diagramType = "flowchart") =>
        \A i \in 1..Len(diagram.subgraphs) :
            (\A m \in 1..Len(diagram.subgraphs[i].nodes) :
                diagram.subgraphs[i].nodes[m] \notin DOMAIN layout.nodes)
            => /\ layout.subgraphs[i].width = 0
               /\ layout.subgraphs[i].height = 0

----------------------------------------------------------------------------
\* C24: while the subgraph blocks of a flowchart are scanned the nesting
\* depth is never negative, so every top-level block that a 'subgraph' line
\* opens and its matching 'end' line closes is recorded exactly once,
\* whatever lines precede it (an unmatched 'end' among them), with the ids
\* of the lines directly inside it as its members; ids on lines nested
\* deeper are added to no member list.
ScanStart == [subgraphs |-> <<>>, currentSubgraph |-> NoSubgraph, depth |-> 0]

\* the depth counter of parseSubgraphs after the first k lines of the body
DepthAfter(body, k) == SubgraphLines(ScanStart, SubSeq(body, 1, k)).depth

\* the blocks of a body as the nesting of its lines defines them: an 'end'
\* that closes nothing is passed over
BlockLine(st, line) ==
    IF line.k = "subgraph"
    THEN [st EXCEPT !.open = IF st.depth = 0 THEN [id |-> line.id, nodes |-> <<>>] ELSE @,
                    !.depth = @ + 1]
    ELSE IF line.k = "end"
    THEN IF st.depth = 0 THEN st
         ELSE IF st.depth = 1
         THEN [st EXCEPT !.blocks = Append(@, st.open), !.depth = 0]
         ELSE [st EXCEPT !.depth = @ - 1]
    ELSE IF st.depth = 1
    THEN [st EXCEPT !.open.nodes = AddMembers(@, extractNodeIds(LineText(line), 1))]
    ELSE st

RECURSIVE Blocks(_, _)
Blocks(st, body) ==
    IF body = <<>> THEN st.blocks ELSE Blocks(BlockLine(st, Head(body)), Tail(body))

C24_SubgraphDepth ==
    (Parsed /\ diagramType = "flowchart") =>
        /\ \A k \in 0..Len(request.body) : DepthAfter(request.body, k) >= 0
        /\ [i \in 1..Len(diagram.subgraphs) |->
               [id |-> diagram.subgraphs[i].id, nodes |-> diagram.subgraphs[i].nodes]]
           = Blocks([blocks |-> <<>>, open |-> [id |-> Null, nodes |-> <<>>], depth |-> 0],
                    request.body)

----------------------------------------------------------------------------
(* Flowcharts in each of the five directions, for the centring of rows *)

MaxRowLines == 3

RowTexts ==
    {"flowchart TD\n", "flowchart TB\n", "flowchart BT\n", "flowchart LR\n",
     "flowchart RL\n"}

RowRequests == RequestsOf(RowTexts, RankBodyLines, MaxRowLines)

NextRows ==
    \/ Receive(RowRequests, MaxCalls)
    \/ Detect
    \/ Parse
    \/ LayoutStep
    \/ Synthesize
    \/ Respond

SpecRows == Init /\ [][NextRows]_vars

\* the laid-out nodes of the rank row at this coordinate of the rank axis
RowAt(c) ==
    {id \in DOMAIN layout.nodes :
        (IF diagram.direction \in {"LR", "RL"}
         THEN layout.nodes[id].x ELSE layout.nodes[id].y) = c}

RowCoordinates ==
    {IF diagram.direction \in {"LR", "RL"}
     THEN layout.nodes[id].x ELSE layout.nodes[id].y : id \in DOMAIN layout.nodes}

\* twice the midpoint of the extent that the rectangles of a row cover along
\* the cross axis
RowMiddle2(row) ==
    IF diagram.direction \in {"LR", "RL"}
    THEN SetMin({layout.nodes[id].y : id \in row})
         + SetMax({layout.nodes[id].y + layout.nodes[id].height : id \in row})
    ELSE SetMin({layout.nodes[id].x : id \in row})
         + SetMax({layout.nodes[id].x + layout.nodes[id].width : id \in row})

\* C25: in every direction (TD, TB, BT, LR, RL) the midpoint of the extent
\* that a rank row's node rectangles cover along the cross axis (x for the
\* vertical directions, y for the horizontal ones) is the same for all
\* non-empty rows of a flowchart layout.
C25_RowsCentered ==
    (LaidOut /\ diagramType = "flowchart") =>
        \A c1 \in RowCoordinates, c2 \in RowCoordinates :
            RowMiddle2(RowAt(c1)) = RowMiddle2(RowAt(c2))

----------------------------------------------------------------------------
\* C26: in the sequence layout the k-th message (counted from 0) is a
\* two-point horizontal segment at y = 120 + 60*k whose x coordinates are the
\* column centres of its source and target participants; message rows are
\* strictly ordered by declaration order and no two messages share a row.
C26_MessageRows ==
    (LaidOut /\ diagramType = "sequence") =>
        /\ Len(layout.edges) = Len(diagram.edges)
        /\ \A k \in 1..Len(layout.edges) :
            LET message == diagram.edges[k]
                segment == layout.edges[k]
            IN  /\ segment.source = message.source
                /\ segment.target = message.target
                /\ Len(segment.points) = 2
                /\ segment.points[1].y = Px(120 + 60 * (k - 1))
                /\ segment.points[2].y = segment.points[1].y
                /\ segment.points[1].x = CenterX(layout.nodes[message.source])
                /\ segment.points[2].x = CenterX(layout.nodes[message.target])
                /\ \A j \in 1..(k - 1) :
                       layout.edges[j].points[1].y < segment.points[1].y

\* three messages are laid out, one of them between two participants
C26_Witness ==
    /\ LaidOut
    /\ diagramType = "sequence"
    /\ Len(layout.edges) = 3
    /\ layout.edges[3].source # layout.edges[3].target
    /\ layout.edges[3].points[1].y = Px(240)

----------------------------------------------------------------------------
(* Diagrams of four lines that fill every group of primitives *)

MaxGroupLines == 4

GroupFlowLines ==
    {[k |-> "subgraph", id |-> "S", label |-> Null],
     EdgeLine("A", "[React App]", "yes", "B", "[(Redis)]"),
     TextLine("B"),
     [k |-> "end"]}

GroupSeqLines ==
    {ParticipantLine("participant", "A", Null),
     MessageLine("A", "->>", "B", "hi"),
     MessageLine("B", "-->>", "A", "")}

GroupERLines ==
    {[k |-> "entityStart", name |-> "A"],
     [k |-> "attr", type |-> "int", name |-> "id", key |-> "PK"],
     [k |-> "close"],
     RelLine("A", "||", "o{", "B", "places", TRUE)}

GroupRequests ==
    RequestsOf({"flowchart TD\n"}, GroupFlowLines, MaxGroupLines)
    \cup RequestsOf({"sequenceDiagram\n"}, GroupSeqLines, MaxGroupLines)
    \cup RequestsOf({"erDiagram\n"}, GroupERLines, MaxGroupLines)

NextGroups ==
    \/ Receive(GroupRequests, MaxCalls)
    \/ Detect
    \/ Parse
    \/ LayoutStep
    \/ Synthesize
    \/ Respond

SpecGroups == Init /\ [][NextGroups]_vars

\* what a primitive is, read off the attributes its constructor call gives it
PrimitiveKind(el) ==
    CASE el.type = "arrow" -> "arrow"
      [] el.type = "text" /\ el.fontSize = 14 -> "subgraphLabel"
      [] el.type = "text" /\ el.fontSize = 16 -> "nodeLabel"
      [] el.type = "text" /\ el.fontSize = 12 -> "edgeLabel"
      [] el.type = "line" /\ el.strokeStyle = "dashed" -> "lifeline"
      [] el.type = "line" /\ el.strokeStyle # "dashed" -> "separator"
      [] el.type = "rectangle" /\ el.strokeWidth = 2 -> "subgraphRect"
      [] OTHER -> "shape"

PrimitiveGroup(el) ==
    CASE PrimitiveKind(el) \in {"subgraphRect", "subgraphLabel"} -> 1
      [] PrimitiveKind(el) \in {"shape", "nodeLabel", "separator"} -> 2
      [] PrimitiveKind(el) = "lifeline" -> 3
      [] OTHER -> 4

KindAt(i) == IF i \in 1..Len(elements) THEN PrimitiveKind(elements[i]) ELSE "none"

\* the diagram's nodes that have a layout, in declaration order
DrawnNodes ==
    LET Drawn[n \in 0..Len(diagram.nodes)] ==
            IF n = 0 THEN <<>>
            ELSE IF MapHas(layout.nodes, diagram.nodes[n].id)
                 THEN Append(Drawn[n - 1], diagram.nodes[n])
                 ELSE Drawn[n - 1]
    IN  Drawn[Len(diagram.nodes)]

ShapePositions == {i \in 1..Len(elements) : KindAt(i) = "shape"}

\* C27: primitives are emitted in a fixed group order: subgraph rectangles
\* and subgraph labels before every node shape; each node's shape immediately
\* followed by its label text and, for an ER node with a multi-line label, by
\* exactly one separator line; all sequence lifelines after every node
\* primitive; every arrow and edge label after all subgraph, node and
\* lifeline primitives.
C27_EmissionOrder ==
    Synthesized =>
        /\ \A i \in 1..Len(elements), j \in 1..Len(elements) :
               i < j => PrimitiveGroup(elements[i]) <= PrimitiveGroup(elements[j])
        /\ Cardinality(ShapePositions) = Len(DrawnNodes)
        /\ \A i \in ShapePositions :
               LET node == DrawnNodes[Cardinality({j \in ShapePositions : j <= i})]
                   multiLine == diagramType = "er" /\ Includes(node.label, "\n")
               IN  /\ KindAt(i + 1) = "nodeLabel"
                   /\ elements[i + 1].text = node.label
                   /\ (KindAt(i + 2) = "separator") <=> multiLine
                   /\ KindAt(i + 3) # "separator"
        /\ \A i \in 1..Len(elements) :
               /\ KindAt(i) = "nodeLabel" => KindAt(i - 1) = "shape"
               /\ KindAt(i) = "separator" => KindAt(i - 1) = "nodeLabel"
               /\ KindAt(i) = "subgraphRect" => KindAt(i + 1) = "subgraphLabel"
               /\ KindAt(i) = "subgraphLabel" => KindAt(i - 1) = "subgraphRect"
               /\ KindAt(i) = "edgeLabel" => KindAt(i - 1) = "arrow"
        /\ (\E i \in 1..Len(elements) : KindAt(i) = "lifeline")
               => diagramType = "sequence"

\* an ER scene with an entity that has a separator line, a second entity,
\* and a labelled relationship arrow after them
C27_Witness ==
    /\ Synthesized
    /\ diagramType = "er"
    /\ Len(elements) = 7
    /\ [i \in 1..7 |-> KindAt(i)]
       = <<"shape", "nodeLabel", "separator", "shape", "nodeLabel", "arrow", "edgeLabel">>

----------------------------------------------------------------------------
(* Calls of up to two body lines, each run to its return *)

\* The handler is one async function on a single-threaded event loop: once
\* a call is received every later statement of it is executed, and the
\* promise of writeFile settles.

MaxAbsorbLines == 2

AbsorbRequests ==
    RequestsOf(FlowTexts, FlowBodyLines, MaxAbsorbLines)
    \cup RequestsOf(SeqTexts, SeqBodyLines, MaxAbsorbLines)
    \cup RequestsOf(ERTexts, ERBodyLines, MaxAbsorbLines)
    \cup RequestsOf(BareTexts, {}, 0)

NextLive ==
    \/ Receive(AbsorbRequests, MaxCalls)
    \/ Detect
    \/ Parse
    \/ LayoutStep
    \/ Synthesize
    \/ Respond

\* the statement order of the handler: a received call goes from detection
\* to its return
Stage ==
    \/ pc = "detect" /\ pc' \in {"parse", "done"}
    \/ pc = "parse" /\ pc' = "layout"
    \/ pc = "layout" /\ pc' = "synthesize"
    \/ pc = "synthesize" /\ pc' \in {"respond", "done"}
    \/ pc = "respond" /\ pc' = "done"

\* Detect, Parse, LayoutStep, Synthesize and Respond are guarded by pc alone,
\* so a call that stands at one of these statements can always take it.
SpecLive == Init /\ [][NextLive]_vars /\ WF_pc(Stage)

\* detection, parsing, layout and synthesis were passed in this order
ConversionReturned ==
    /\ Len(steps) >= 4
    /\ SubSeq(steps, 1, 4) = <<"detect", "parse", "layout", "synthesize">>

\* a call whose dialect was recognized ends after convertToExcalidraw
\* returned, and reports an error only if writing the scene to the output
\* path was rejected
RecognizedAbsorbed ==
    (diagramType # Null /\ pc = "done") =>
        /\ ConversionReturned
        /\ response # NoResponse
        /\ response.isError => (Len(steps) = 5 /\ steps[5] = "write")

\* C28: for every input whose dialect is recognized the conversion completes
\* and returns a scene graph without reporting an error, whatever else the
\* text contains (lines matching no construct, unknown style tokens, edges
\* with unresolved endpoints, zero nodes or zero edges).
C28_RecognizedConverts ==
    /\ []RecognizedAbsorbed
    /\ (diagramType # Null) ~> (pc = "done" /\ ConversionReturned)

\* a recognized text whose lines match no construct was converted to a scene
\* of a diagram without nodes and edges
C28_Witness ==
    /\ pc = "done"
    /\ diagramType # Null
    /\ Len(request.body) > 0
    /\ diagram.nodes = <<>>
    /\ diagram.edges = <<>>
    /\ ConversionReturned
    /\ response = ContentResult

----------------------------------------------------------------------------
(* Several conversions in one process *)

MaxConversions == 3

ConversionRequests ==
    {[text |-> "flowchart TD\n",
      body |-> <<EdgeLine("A", "[React App]", "yes", "B", "[(Redis)]")>>],
     [text |-> "sequenceDiagram\n", body |-> <<MessageLine("A", "->>", "B", "hi")>>],
     [text |-> "erDiagram\n",
      body |-> EntityBlock("A", TRUE) \o <<RelLine("A", "||", "o{", "B", "places", TRUE)>>],
     [text |-> "hello", body |-> <<>>]}

NextConversions ==
    \/ Receive(ConversionRequests, MaxConversions)
    \/ Detect
    \/ Parse
    \/ LayoutStep
    \/ Synthesize
    \/ Respond

SpecConversions == Init /\ [][NextConversions]_vars

\* the primitives of the scenes written so far, followed by those of the
\* conversion that has just returned, in creation order
RECURSIVE WrittenPrimitives(_)
WrittenPrimitives(written) ==
    IF written = <<>> THEN <<>>
    ELSE Head(written).elements \o WrittenPrimitives(Tail(written))

CreatedPrimitives ==
    WrittenPrimitives(files) \o (IF pc = "respond" THEN elements ELSE <<>>)

SeedsIncrease ==
    /\ \A i \in 1..Len(CreatedPrimitives), j \in 1..Len(CreatedPrimitives) :
           i < j => CreatedPrimitives[i].seed < CreatedPrimitives[j].seed
    /\ \A i \in 1..Len(CreatedPrimitives) : CreatedPrimitives[i].seed < seedCounter

\* C29: the process-wide seed counter only increases: every primitive ever
\* created has a seed distinct from that of every other primitive, within a
\* conversion and across conversions, seeds strictly increase in creation
\* order, and no conversion resets or lowers the counter.
C29_SeedsIncrease ==
    /\ []SeedsIncrease
    /\ [][seedCounter' >= seedCounter]_vars

\* two scenes were written and a third conversion has returned its scene
C29_Witness ==
    /\ Len(files) = 2
    /\ files[1].elements # <<>>
    /\ files[2].elements # <<>>
    /\ calls = 3
    /\ pc = "respond"
    /\ elements # <<>>
    /\ elements[1].seed > files[2].elements[Len(files[2].elements)].seed

----------------------------------------------------------------------------
\* position in the scene of the primitive with this identity, 0 for none
PositionOf(elems, id) ==
    IF \E i \in 1..Len(elems) : elems[i].id = id
    THEN CHOOSE i \in 1..Len(elems) : elems[i].id = id
    ELSE 0

\* a scene without its seeds and identities: references by identity become
\* references by position (timestamps are not part of the model's elements)
SceneShape(elems) ==
    [i \in 1..Len(elems) |->
        [type |-> elems[i].type,
         x |-> elems[i].x, y |-> elems[i].y,
         width |-> elems[i].width, height |-> elems[i].height,
         strokeColor |-> elems[i].strokeColor,
         backgroundColor |-> elems[i].backgroundColor,
         strokeWidth |-> elems[i].strokeWidth,
         strokeStyle |-> elems[i].strokeStyle,
         index |-> elems[i].index,
         text |-> elems[i].text,
         fontSize |-> elems[i].fontSize,
         textAlign |-> elems[i].textAlign,
         points |-> elems[i].points,
         startBinding |-> PositionOf(elems, elems[i].startBinding),
         endBinding |-> PositionOf(elems, elems[i].endBinding),
         boundElements |-> [k \in 1..Len(elems[i].boundElements) |->
                               PositionOf(elems, elems[i].boundElements[k].id)]]]

\* C30: conversions are independent of history: converting the same input
\* text twice, with any number of other conversions in between, yields
\* scenes that agree in everything except seed, identity and timestamp
\* values: number and order of primitives, types, geometry, colors, stroke
\* styles, order tokens, texts, and the binding structure between arrows and
\* shapes.
C30_HistoryIndependent ==
    /\ \A i \in 1..Len(files), j \in 1..Len(files) :
           files[i].mermaid = files[j].mermaid
           => /\ SceneShape(files[i].elements) = SceneShape(files[j].elements)
              /\ [k \in 1..Len(files[i].textInfos) |-> files[i].textInfos[k].text]
                 = [k \in 1..Len(files[j].textInfos) |-> files[j].textInfos[k].text]
    /\ \A i \in 1..Len(files) :
           (pc = "respond" /\ files[i].mermaid = request)
           => SceneShape(files[i].elements) = SceneShape(elements)

\* the same flowchart was converted first and third, a sequence diagram in
\* between; the seeds and identities of the two flowchart scenes differ
C30_Witness ==
    /\ Len(files) = 3
    /\ files[1].mermaid = files[3].mermaid
    /\ files[2].mermaid # files[1].mermaid
    /\ files[1].mermaid.text = "flowchart TD\n"
    /\ files[2].elements # <<>>
    /\ \E k \in 1..Len(files[1].elements) :
           /\ files[1].elements[k].type = "arrow"
           /\ files[1].elements[k].startBinding # Null
           /\ files[1].elements[k].startBinding # files[3].elements[k].startBinding
    /\ files[1].elements[1].seed # files[3].elements[1].seed

====
